---- MODULE Spec2Model ----
(***************************************************************************)
(* cardano-toolbox: the command-line tools (balance check, wallet         *)
(* creation, ADA transfer), the network resolver, the credential lookup   *)
(* and the generic argument parser, as one state machine per process run. *)
(*                                                                         *)
(* A JavaScript string is a sequence of one-character strings, so that    *)
(* startsWith, substring, toLowerCase and toUpperCase are computed.       *)
(* undefined is the one-element sequence Undefined, which no string       *)
(* equals.                                                                *)
(***************************************************************************)
EXTENDS Integers, Sequences, FiniteSets, TLC

VARIABLES
    tool,            \* which entry point this process runs
    args,            \* process.argv.slice(2)
    host,            \* the host preference store (@raycast/api)
    env,             \* process.env: variable name -> value, set variables only
    pc,              \* position of the process in its main()
    exitCode,        \* -1 while running, then the process's exit status
    out,             \* messages written to the console, in order
    calls,           \* calls made to external services and SDKs, in order
    envReads,        \* names of the environment variables read so far
    opts,            \* the locals of main and of its worker function
    network,         \* getNetworkAndApiKey's network
    apiKey,          \* getNetworkAndApiKey's apiKey
    finalNetwork,    \* the network the tool goes on with
    i,               \* parseArgs' loop index (0-based, as in the source)
    parsed,          \* parseArgs' mapping
    result,          \* what the tool's worker function returned or was answered
    files            \* the files written, in order

vars == << tool, args, host, env, pc, exitCode, out, calls, envReads, opts,
           network, apiKey, finalNetwork, i, parsed, result, files >>

inputs == << tool, args, host, env >>

-----------------------------------------------------------------------------
(* Strings *)

Undefined == << "undefined" >>

Null == << "null" >>

\* whether a value is truthy: undefined, null and the empty string are not
Truthy(v) == v # Undefined /\ v # Null /\ v # << >>

UpperChars == << "A","B","C","D","E","F","G","H","I","J","K","L","M",
                 "N","O","P","Q","R","S","T","U","V","W","X","Y","Z" >>
LowerChars == << "a","b","c","d","e","f","g","h","i","j","k","l","m",
                 "n","o","p","q","r","s","t","u","v","w","x","y","z" >>

LowerChar(c) ==
    IF \E k \in 1..26 : UpperChars[k] = c
    THEN LowerChars[CHOOSE k \in 1..26 : UpperChars[k] = c]
    ELSE c

UpperChar(c) ==
    IF \E k \in 1..26 : LowerChars[k] = c
    THEN UpperChars[CHOOSE k \in 1..26 : LowerChars[k] = c]
    ELSE c

toLowerCase(s) == [k \in 1..Len(s) |-> LowerChar(s[k])]

toUpperCase(s) == [k \in 1..Len(s) |-> UpperChar(s[k])]

startsWith(s, p) == Len(s) >= Len(p) /\ SubSeq(s, 1, Len(p)) = p

\* s.substring(n): the characters from 0-based index n on
substring(s, n) == SubSeq(s, n + 1, Len(s))

s_mainnet == << "m","a","i","n","n","e","t" >>
s_preprod == << "p","r","e","p","r","o","d" >>
s_preview == << "p","r","e","v","i","e","w" >>
s_testnet == << "t","e","s","t","n","e","t" >>
s_bogus   == << "b","o","g","u","s" >>
s_PREVIEW == << "P","R","E","V","I","E","W" >>
s_Mainnet == << "M","a","i","n","n","e","t" >>

\* type Network = 'mainnet' | 'preprod' | 'preview'
Network == { s_mainnet, s_preprod, s_preview }

-----------------------------------------------------------------------------
(* The environment and the host preference store *)

s_NETWORK == << "N","E","T","W","O","R","K" >>
s_BLOCKFROST_API_KEY_ ==
    << "B","L","O","C","K","F","R","O","S","T","_","A","P","I","_","K","E","Y","_" >>

\* process.env holds the variables the tools read: NETWORK and the three
\* credential variables; a field that is Undefined is a variable not set
v_MAINNET == s_BLOCKFROST_API_KEY_ \o << "M","A","I","N","N","E","T" >>
v_PREPROD == s_BLOCKFROST_API_KEY_ \o << "P","R","E","P","R","O","D" >>
v_PREVIEW == s_BLOCKFROST_API_KEY_ \o << "P","R","E","V","I","E","W" >>

\* process.env[name]
processEnv(e, name) ==
    IF name = s_NETWORK THEN e.NETWORK
    ELSE IF name = v_MAINNET THEN e.MAINNET
    ELSE IF name = v_PREPROD THEN e.PREPROD
    ELSE IF name = v_PREVIEW THEN e.PREVIEW
    ELSE Undefined

\* the payment tools read their own variables, by their names
MkEnv(nw, km, kp, kv) ==
    [NETWORK |-> nw, MAINNET |-> km, PREPROD |-> kp, PREVIEW |-> kv,
     MASUMI_PAYMENT_SERVICE_URL |-> Undefined, MASUMI_API_KEY |-> Undefined,
     MASUMI_AGENT_IDENTIFIER |-> Undefined, MASUMI_NETWORK |-> Undefined,
     MASUMI_SELLER_VKEY |-> Undefined]

MkPayEnv(url, key, agent, net, vkey) ==
    [NETWORK |-> Undefined, MAINNET |-> Undefined, PREPROD |-> Undefined,
     PREVIEW |-> Undefined,
     MASUMI_PAYMENT_SERVICE_URL |-> url, MASUMI_API_KEY |-> key,
     MASUMI_AGENT_IDENTIFIER |-> agent, MASUMI_NETWORK |-> net,
     MASUMI_SELLER_VKEY |-> vkey]

\* the values NETWORK takes: unset, empty, canonical, other spellings, other
NetworkEnvValues == { Undefined, << >>, s_mainnet, s_Mainnet, s_PREVIEW, s_bogus }

\* the values of the three credential variables: unset, empty, a key of its own
KeyValues(tag) == { Undefined, << >>, << "k", tag >> }

\* the host preference store: the import fails (not under the host),
\* getPreferenceValues throws, or it returns preferences whose network is
\* absent, empty or a Network (its declared type)
HostStates ==
    { [kind |-> "noimport", network |-> Undefined],
      [kind |-> "throws",   network |-> Undefined] }
    \cup { [kind |-> "prefs", network |-> n] : n \in {Undefined, << >>} \cup Network }

-----------------------------------------------------------------------------
(* config.ts and the network-and-api handler *)

\* getNetwork without its catch: a throwing host store leaves no network
getNetwork_hostThrows(h, e) ==
    IF h.kind = "throws"
    THEN Undefined
    ELSE IF h.kind = "prefs" /\ Truthy(h.network)
    THEN h.network
    ELSE LET raw == processEnv(e, s_NETWORK)
             low == IF raw = Undefined THEN Undefined ELSE toLowerCase(raw)
         IN  IF low = s_mainnet \/ low = s_preprod \/ low = s_preview
             THEN low
             ELSE s_preprod

\* getNetwork comparing NETWORK as it is written
getNetwork_noLower(h, e) ==
    IF h.kind = "prefs" /\ Truthy(h.network)
    THEN h.network
    ELSE LET raw == processEnv(e, s_NETWORK)
         IN  IF raw = s_mainnet \/ raw = s_preprod \/ raw = s_preview
             THEN raw
             ELSE s_preprod

getNetwork(h, e) ==
    IF h.kind = "prefs" /\ Truthy(h.network)
    THEN h.network
    ELSE LET raw == processEnv(e, s_NETWORK)
             low == IF raw = Undefined THEN Undefined ELSE toLowerCase(raw)
         IN  IF low = s_mainnet \/ low = s_preprod \/ low = s_preview
             THEN low
             ELSE s_preprod

\* the variable name not following the network
envVarOf_fixed(n) == v_PREPROD

\* `BLOCKFROST_API_KEY_${network.toUpperCase()}`
envVarOf(n) == s_BLOCKFROST_API_KEY_ \o toUpperCase(n)

-----------------------------------------------------------------------------
(* Console output, external calls, process exit *)

Msg(stream, text, arg) == [stream |-> stream, text |-> text, arg |-> arg]

Texts(o) == { o[k].text : k \in 1..Len(o) }

\* a call to an external service or SDK: remote when it goes over the network,
\* with the network identifier and the credential in use
Call(api, remote, net, key, arg) ==
    [api |-> api, remote |-> remote, network |-> net, projectId |-> key, arg |-> arg]

\* process.exit(code) after writing the messages ms
Exit(code, ms) ==
    /\ exitCode' = code
    /\ pc' = "exited"
    /\ out' = out \o ms

-----------------------------------------------------------------------------
(* Flags *)

dashdash == << "-","-" >>
f_address == dashdash \o << "a","d","d","r","e","s","s" >>
f_network == dashdash \o << "n","e","t","w","o","r","k" >>

validNetworks == << s_mainnet, s_preprod, s_preview >>

includes(list, v) == \E k \in 1..Len(list) : list[k] = v

-----------------------------------------------------------------------------
(* getNetworkAndApiKey: shared by the balance check and the ADA transfer *)

\* process.env[envVar]: the one variable named for the network is read
lookupKey_fallback(e, envVar) ==
    IF Truthy(processEnv(e, envVar)) THEN processEnv(e, envVar)
    ELSE processEnv(e, v_PREPROD)

lookupKey(e, envVar) == processEnv(e, envVar)

\* the environment variables getNetwork reads
getNetworkReads(h) ==
    IF h.kind = "prefs" /\ Truthy(h.network) THEN {} ELSE { s_NETWORK }

GetNetworkAndApiKey ==
    /\ pc = "getNetworkAndApiKey"
    /\ LET n == getNetwork(host, env)
           envVar == envVarOf(n)
           key == lookupKey(env, envVar)
       IN  /\ network' = n
           /\ envReads' = envReads \cup getNetworkReads(host) \cup { envVar }
           /\ IF ~Truthy(key)
              THEN /\ Exit(1, << Msg("stderr", "not found in environment", envVar),
                                 Msg("stderr", "please add to .env", envVar) >>)
                   /\ UNCHANGED apiKey
              ELSE /\ apiKey' = key
                   /\ pc' = "gotNetworkAndApiKey"
                   /\ UNCHANGED << exitCode, out >>
    /\ UNCHANGED << inputs, calls, opts, finalNetwork, i, parsed, result, files >>

-----------------------------------------------------------------------------
(* Numbers *)

DigitChars == << "0","1","2","3","4","5","6","7","8","9" >>

isDigit(c) == \E k \in 1..10 : DigitChars[k] = c

digitVal(c) == (CHOOSE k \in 1..10 : DigitChars[k] = c) - 1

RECURSIVE digitRun(_, _)
\* how many digits s has from 1-based position k on
digitRun(s, k) ==
    IF k <= Len(s) /\ isDigit(s[k]) THEN 1 + digitRun(s, k + 1) ELSE 0

RECURSIVE digitsValue(_, _, _)
\* the number written by the n digits of s that end at position last
digitsValue(s, last, n) ==
    IF n = 0 THEN 0 ELSE 10 * digitsValue(s, last - 1, n - 1) + digitVal(s[last])

RECURSIVE pow10(_)
pow10(n) == IF n = 0 THEN 1 ELSE 10 * pow10(n - 1)

LOVELACE_PER_ADA == 1000000

\* a JavaScript number: NaN, or a value held in millionths
NaN == [nan |-> TRUE, micro |-> 0]
Num(micro) == [nan |-> FALSE, micro |-> micro]

\* parseFloat: an optional sign, digits, an optional fraction (up to six
\* digits are kept); NaN when no digit is found
parseFloat(s) ==
    LET signed == Len(s) > 0 /\ (s[1] = "-" \/ s[1] = "+")
        start == IF signed THEN 2 ELSE 1
        n1 == digitRun(s, start)
        dot == start + n1
        hasDot == dot <= Len(s) /\ s[dot] = "."
        n2raw == IF hasDot THEN digitRun(s, dot + 1) ELSE 0
        n2 == IF n2raw > 6 THEN 6 ELSE n2raw
        whole == digitsValue(s, start + n1 - 1, n1)
        frac == digitsValue(s, dot + n2, n2) * pow10(6 - n2)
        mag == whole * LOVELACE_PER_ADA + frac
    IN  IF n1 = 0 /\ n2raw = 0 THEN NaN
        ELSE Num(IF signed /\ s[1] = "-" THEN 0 - mag ELSE mag)

-----------------------------------------------------------------------------
(* check-wallet-balance.ts *)

RECURSIVE balanceArgs(_, _, _)
\* the argument loop of main, from 0-based index k on, o being the locals
balanceArgs(a, k, o) ==
    IF k >= Len(a) THEN o
    ELSE IF a[k + 1] = f_address /\ k + 1 < Len(a)
         THEN balanceArgs(a, k + 2, [o EXCEPT !.address = a[k + 2]])
    ELSE IF a[k + 1] = f_network /\ k + 1 < Len(a)
         THEN balanceArgs(a, k + 2, [o EXCEPT !.networkOverride = a[k + 2]])
    ELSE IF ~startsWith(a[k + 1], dashdash)
         THEN balanceArgs(a, k + 1, [o EXCEPT !.address = a[k + 1]])
    ELSE balanceArgs(a, k + 1, o)

BalanceParse ==
    /\ tool = "balance" /\ pc = "start"
    /\ opts' = balanceArgs(args, 0, [address |-> << >>, networkOverride |-> << >>])
    /\ pc' = "validate"
    /\ UNCHANGED << inputs, exitCode, out, calls, envReads,
                    network, apiKey, finalNetwork, i, parsed, result, files >>

BalanceValidate ==
    /\ tool = "balance" /\ pc = "validate"
    /\ IF ~Truthy(opts.address)
       THEN Exit(1, << Msg("stderr", "Wallet address is required", << >>),
                       Msg("stderr", "Usage", << >>) >>)
       ELSE /\ pc' = "getNetworkAndApiKey"
            /\ UNCHANGED << exitCode, out >>
    /\ UNCHANGED << inputs, calls, envReads, opts,
                    network, apiKey, finalNetwork, i, parsed, result, files >>

\* the override taken without the check that it is a network
balanceFinalNetwork_unchecked(override, n) == IF Truthy(override) THEN override ELSE n

\* the override dropped
balanceFinalNetwork_ignored(override, n) == n

\* the network override, if provided and valid
balanceFinalNetwork(override, n) ==
    IF Truthy(override) /\ includes(validNetworks, override) THEN override ELSE n

BalanceSelectNetwork ==
    /\ tool = "balance" /\ pc = "gotNetworkAndApiKey"
    /\ finalNetwork' = balanceFinalNetwork(opts.networkOverride, network)
    /\ out' = Append(out, Msg("stdout", "Cardano Wallet Balance Checker",
                              balanceFinalNetwork(opts.networkOverride, network)))
    /\ pc' = "getWalletBalance"
    /\ UNCHANGED << inputs, exitCode, calls, envReads, opts,
                    network, apiKey, i, parsed, result, files >>

s_lovelace == << "l","o","v","e","l","a","c","e" >>
a_assetX == << "a","s","s","e","t","X" >>
a_assetY == << "a","s","s","e","t","Y" >>

\* an entry of addressInfo.amount
Amount(unit, quantity) == [unit |-> unit, quantity |-> quantity]

\* Number(quantity) / 1_000_000: Number gives 0 for the empty string, the
\* value of a run of digits and NaN for anything else; the quotient, held in
\* millionths, is the count of lovelace
lovelaceToAda(quantity) ==
    IF digitRun(quantity, 1) = Len(quantity)
    THEN Num(digitsValue(quantity, Len(quantity), Len(quantity)))
    ELSE NaN

RECURSIVE natToString(_)
\* the decimal digits of a natural number
natToString(n) ==
    IF n < 10 THEN << DigitChars[n + 1] >>
    ELSE natToString(n \div 10) \o << DigitChars[(n % 10) + 1] >>

RECURSIVE fractionDigits(_, _)
\* the digits of f millionths over the given number of places, without
\* trailing zeros
fractionDigits(f, places) ==
    IF f = 0 THEN << >>
    ELSE << DigitChars[(f \div pow10(places - 1)) + 1] >>
         \o fractionDigits(f % pow10(places - 1), places - 1)

\* `${n}` for a number that is NaN or not negative
numberToString(n) ==
    IF n.nan THEN << "N","a","N" >>
    ELSE IF n.micro % LOVELACE_PER_ADA = 0 THEN natToString(n.micro \div LOVELACE_PER_ADA)
    ELSE natToString(n.micro \div LOVELACE_PER_ADA) \o << "." >>
         \o fractionDigits(n.micro % LOVELACE_PER_ADA, 6)

RECURSIVE adaBalanceOf_sum(_, _, _)
\* the loop adding the quantities of all entries up
adaBalanceOf_sum(amounts, k, balance) ==
    IF k > Len(amounts) THEN balance
    ELSE adaBalanceOf_sum(amounts, k + 1,
             Num(balance.micro + lovelaceToAda(amounts[k].quantity).micro))

RECURSIVE adaBalanceOf(_, _, _)
\* the loop over addressInfo.amount from 1-based position k on: adaBalance
adaBalanceOf(amounts, k, balance) ==
    IF k > Len(amounts) THEN balance
    ELSE IF amounts[k].unit = s_lovelace
         THEN adaBalanceOf(amounts, k + 1, lovelaceToAda(amounts[k].quantity))
    ELSE adaBalanceOf(amounts, k + 1, balance)

\* the loop over addressInfo.amount: otherAssets
otherAssets(amounts) == SelectSeq(amounts, LAMBDA a : a.unit # s_lovelace)

\* the lines of the balance report
balanceReport(address, amounts) ==
    << Msg("stdout", "Wallet Balance", address),
       Msg("stdout", "ADA", numberToString(adaBalanceOf(amounts, 1, Num(0)))) >>
    \o ( IF Len(otherAssets(amounts)) > 0
         THEN << Msg("stdout", "Other Assets", << >>) >>
              \o [ k \in 1..Len(otherAssets(amounts)) |->
                     Msg("stdout", "asset line",
                         otherAssets(amounts)[k].quantity \o << " " >>
                         \o otherAssets(amounts)[k].unit) ]
         ELSE << >> )

\* the longest amount list an address lookup returns
MaxAmounts == 2

AmountEntries ==
    { Amount(s_lovelace, << "5","0","0","0","0","0","0" >>), Amount(s_lovelace, << "1","5","0","0","0","0","0" >>),
      Amount(a_assetX, << "3" >>), Amount(a_assetY, << "1","2" >>) }

\* the amount lists of an address: one entry per unit, lovelace anywhere or
\* not there
AmountLists ==
    { l \in UNION { [1..n -> AmountEntries] : n \in 0..MaxAmounts } :
        \A j, k \in 1..Len(l) : j # k => l[j].unit # l[k].unit }

\* what api.addresses(address) does: answers, or throws one of the errors
AddressesOutcomes == { "ok", "server404", "server403", "server500", "client", "other" }

GetWalletBalance ==
    /\ tool = "balance" /\ pc = "getWalletBalance"
    /\ calls' = Append(calls, Call("blockfrost.addresses", TRUE, finalNetwork,
                                    apiKey, opts.address))
    /\ \E outcome \in AddressesOutcomes, amounts \in AmountLists :
         IF outcome = "ok"
         THEN /\ out' = out \o balanceReport(opts.address, amounts)
              /\ result' = amounts
              /\ pc' = "finish"
              /\ UNCHANGED exitCode
         ELSE /\ amounts = << >>
              /\ Exit(1, << Msg("stderr", "error", outcome) >>)
              /\ UNCHANGED result
    /\ UNCHANGED << inputs, envReads, opts,
                    network, apiKey, finalNetwork, i, parsed, files >>

BalanceFinish ==
    /\ tool = "balance" /\ pc = "finish"
    /\ out' = Append(out, Msg("stdout", "Finished", << >>))
    /\ exitCode' = 0
    /\ pc' = "exited"
    /\ UNCHANGED << inputs, calls, envReads, opts,
                    network, apiKey, finalNetwork, i, parsed, result, files >>

-----------------------------------------------------------------------------
(* send-ada.ts: main *)

f_recipient == dashdash \o << "r","e","c","i","p","i","e","n","t" >>
f_amount    == dashdash \o << "a","m","o","u","n","t" >>
f_skey_file == dashdash \o << "s","k","e","y","-","f","i","l","e" >>
f_skey      == dashdash \o << "s","k","e","y" >>
f_mnemonic  == dashdash \o << "m","n","e","m","o","n","i","c" >>

SendLocals ==
    [recipientAddress |-> << >>, amountAda |-> Num(0), skeyFile |-> << >>,
     skey |-> << >>, mnemonic |-> << >>, networkOverride |-> << >>]

RECURSIVE sendArgs(_, _, _)
\* the argument loop of main, from 0-based index k on, o being the locals
sendArgs(a, k, o) ==
    IF k >= Len(a) THEN o
    ELSE IF a[k + 1] = f_recipient /\ k + 1 < Len(a)
         THEN sendArgs(a, k + 2, [o EXCEPT !.recipientAddress = a[k + 2]])
    ELSE IF a[k + 1] = f_amount /\ k + 1 < Len(a)
         THEN sendArgs(a, k + 2, [o EXCEPT !.amountAda = parseFloat(a[k + 2])])
    ELSE IF a[k + 1] = f_skey_file /\ k + 1 < Len(a)
         THEN sendArgs(a, k + 2, [o EXCEPT !.skeyFile = a[k + 2]])
    ELSE IF a[k + 1] = f_skey /\ k + 1 < Len(a)
         THEN sendArgs(a, k + 2, [o EXCEPT !.skey = a[k + 2]])
    ELSE IF a[k + 1] = f_mnemonic /\ k + 1 < Len(a)
         THEN sendArgs(a, k + 2, [o EXCEPT !.mnemonic = a[k + 2]])
    ELSE IF a[k + 1] = f_network /\ k + 1 < Len(a)
         THEN sendArgs(a, k + 2, [o EXCEPT !.networkOverride = a[k + 2]])
    ELSE sendArgs(a, k + 1, o)

SendParse ==
    /\ tool = "send" /\ pc = "start"
    /\ opts' = sendArgs(args, 0, SendLocals)
    /\ pc' = "validate"
    /\ UNCHANGED << inputs, exitCode, out, calls, envReads,
                    network, apiKey, finalNetwork, i, parsed, result, files >>

\* [skeyFile, skey, mnemonic].filter(Boolean).length
signingMethods(o) ==
    Cardinality({ m \in { "skeyFile", "skey", "mnemonic" } : Truthy(o[m]) })

\* the precedence warning main writes when several signing methods are given
sendWarning(o) ==
    IF signingMethods(o) > 1
    THEN << Msg("stderr", "Multiple signing methods provided", << >>) >>
    ELSE << >>

SendValidate ==
    /\ tool = "send" /\ pc = "validate"
    /\ IF ~Truthy(opts.recipientAddress)
       THEN Exit(1, << Msg("stderr", "Recipient address is required", << >>),
                       Msg("stderr", "Usage", << >>) >>)
       ELSE IF opts.amountAda.nan \/ opts.amountAda.micro = 0 \/ opts.amountAda.micro <= 0
       THEN Exit(1, << Msg("stderr", "Valid amount in ADA is required", << >>) >>)
       ELSE IF ~Truthy(opts.skeyFile) /\ ~Truthy(opts.skey) /\ ~Truthy(opts.mnemonic)
       THEN Exit(1, << Msg("stderr", "Signing method is required", << >>) >>)
       ELSE IF Truthy(opts.networkOverride) /\ ~includes(validNetworks, opts.networkOverride)
       THEN Exit(1, sendWarning(opts)
                    \o << Msg("stderr", "Invalid network", opts.networkOverride) >>)
       ELSE /\ out' = out \o sendWarning(opts)
                          \o << Msg("stdout", "Cardano ADA Sender", opts.networkOverride) >>
            /\ pc' = "getNetworkAndApiKey"
            /\ UNCHANGED exitCode
    /\ UNCHANGED << inputs, calls, envReads, opts,
                    network, apiKey, finalNetwork, i, parsed, result, files >>

-----------------------------------------------------------------------------
(* send-ada.ts: sendAda *)

strIncludes(s, sub) ==
    \E k \in 0..(Len(s) - Len(sub)) : SubSeq(s, k + 1, k + Len(sub)) = sub

s_dot_mnemonic == << ".","m","n","e","m","o","n","i","c" >>

\* whether sendAda takes the mnemonic for a file path
mnemonicIsFile(m) ==
    strIncludes(m, s_dot_mnemonic) \/ startsWith(m, << ".","/" >>) \/ startsWith(m, << "/" >>)

\* the if-chain with the key file tried first
signingMethod_skeyFirst(o) ==
    IF Truthy(o.skeyFile) THEN "skeyFile"
    ELSE IF Truthy(o.mnemonic) THEN "mnemonic"
    ELSE IF Truthy(o.skey) THEN "skey"
    ELSE "none"

\* the branch of sendAda's if-chain that builds the wallet
signingMethod(o) ==
    IF Truthy(o.mnemonic) THEN "mnemonic"
    ELSE IF Truthy(o.skeyFile) THEN "skeyFile"
    ELSE IF Truthy(o.skey) THEN "skey"
    ELSE "none"

\* options.network || network, options.network being networkOverride || undefined
sendFinalNetwork(override, n) == IF Truthy(override) THEN override ELSE n

\* what building the wallet can do: it goes through, readFileSync throws, or
\* JSON.parse, the key format check or the wallet constructor throws
WalletOutcomes == { "ok", "readFails", "throws" }

SendCreateWallet ==
    /\ tool = "send" /\ pc = "gotNetworkAndApiKey"
    /\ LET fn == sendFinalNetwork(opts.networkOverride, network)
           m == signingMethod(opts)
           provider == Call("BlockfrostProvider", FALSE, Undefined, apiKey, << >>)
           reads == (m = "mnemonic" /\ mnemonicIsFile(opts.mnemonic)) \/ m = "skeyFile"
       IN  /\ finalNetwork' = fn
           /\ \E outcome \in WalletOutcomes :
                /\ outcome = "readFails" => reads
                /\ IF m = "none" \/ outcome # "ok"
                   THEN /\ calls' = Append(calls, provider)
                        /\ out' = out \o << Msg("stdout", "Sending", fn) >>
                        /\ pc' = "catch"
                   ELSE /\ calls' = calls \o << provider,
                                               Call("MeshWallet", FALSE, fn, apiKey, m) >>
                        /\ out' = out \o << Msg("stdout", "Sending", fn),
                                            Msg("stdout", "wallet from", m) >>
                        /\ pc' = "checkFunds"
    /\ UNCHANGED << inputs, exitCode, envReads, opts, network, apiKey,
                    i, parsed, result, files >>

MaxBalanceAda == 6

\* wallet.getBalance(): no entry, or a first entry with a lovelace quantity
BalanceQuantities == { k * LOVELACE_PER_ADA : k \in 0..MaxBalanceAda }

\* the funds check left out
insufficient_never(adaBalance, amountAda) == FALSE

\* adaBalance < options.amountAda, a comparison with NaN being false
insufficient(adaBalance, amountAda) ==
    ~adaBalance.nan /\ ~amountAda.nan /\ adaBalance.micro < amountAda.micro

\* what the wallet reports: a call throws, there is no UTXO, or there are some
UtxoOutcomes == { "throws", "empty", "some" }

SendCheckFunds ==
    /\ tool = "send" /\ pc = "checkFunds"
    /\ \E u \in UtxoOutcomes, q \in BalanceQuantities \cup { -1 } :
         LET addresses == Call("wallet.getUnusedAddresses", TRUE, finalNetwork, apiKey, << >>)
             utxos == Call("wallet.getUtxos", TRUE, finalNetwork, apiKey, << >>)
             balance == Call("wallet.getBalance", TRUE, finalNetwork, apiKey, << >>)
             \* parseInt(balance[0]?.quantity || '0') / 1_000_000
             adaBalance == Num(IF q = -1 THEN 0 ELSE q)
         IN  IF u = "throws"
             THEN /\ q = -1
                  /\ calls' = calls \o << addresses >>
                  /\ pc' = "catch"
                  /\ UNCHANGED out
             ELSE IF u = "empty"
             THEN /\ q = -1
                  /\ calls' = calls \o << addresses, utxos >>
                  /\ pc' = "catch"
                  /\ UNCHANGED out
             ELSE /\ calls' = calls \o << addresses, utxos, balance >>
                  /\ out' = Append(out, Msg("stdout", "Current balance", adaBalance))
                  /\ pc' = IF insufficient(adaBalance, opts.amountAda)
                           THEN "catch" ELSE "submit"
    /\ UNCHANGED << inputs, exitCode, envReads, opts, network, apiKey,
                    finalNetwork, i, parsed, result, files >>

s_txHash == << "t","x" >>

\* how far building, signing and submitting get before one of them throws
SubmitOutcomes == { "buildThrows", "signThrows", "submitThrows", "ok" }

SendSubmit ==
    /\ tool = "send" /\ pc = "submit"
    /\ \E outcome \in SubmitOutcomes :
         LET \* Math.floor(options.amountAda * 1_000_000).toString()
             amountLovelace == opts.amountAda.micro
             build == Call("tx.build", TRUE, finalNetwork, apiKey, amountLovelace)
             sign == Call("wallet.signTx", FALSE, finalNetwork, apiKey, << >>)
             submit == Call("wallet.submitTx", TRUE, finalNetwork, apiKey, << >>)
         IN  /\ calls' = calls \o
                    ( IF outcome = "buildThrows" THEN << build >>
                      ELSE IF outcome = "signThrows" THEN << build, sign >>
                      ELSE << build, sign, submit >> )
             /\ IF outcome = "ok"
                THEN /\ result' = s_txHash
                     /\ out' = Append(out, Msg("stdout", "Transaction submitted", s_txHash))
                     /\ pc' = "returned"
                ELSE /\ pc' = "catch"
                     /\ UNCHANGED << result, out >>
    /\ UNCHANGED << inputs, exitCode, envReads, opts, network, apiKey,
                    finalNetwork, i, parsed, files >>

SendCatch ==
    /\ tool = "send" /\ pc = "catch"
    /\ out' = Append(out, Msg("stderr", "Error sending ADA", << >>))
    /\ result' = Null
    /\ pc' = "returned"
    /\ UNCHANGED << inputs, exitCode, calls, envReads, opts, network, apiKey,
                    finalNetwork, i, parsed, files >>

\* main goes on after `await sendAda(...)`, whatever it returned
SendFinish ==
    /\ tool = "send" /\ pc = "returned"
    /\ out' = Append(out, Msg("stdout", "Finished", << >>))
    /\ exitCode' = 0
    /\ pc' = "exited"
    /\ UNCHANGED << inputs, calls, envReads, opts, network, apiKey,
                    finalNetwork, i, parsed, result, files >>

-----------------------------------------------------------------------------
(* The wallet creator: main and createWallet *)

f_name == dashdash \o << "n","a","m","e" >>
s_wallet == << "w","a","l","l","e","t" >>

WalletLocals == [name |-> s_wallet, network |-> s_preprod, baseFilename |-> Undefined]

RECURSIVE walletArgs(_, _, _)
\* the argument loop of main, from 0-based index k on, o being the locals
walletArgs(a, k, o) ==
    IF k >= Len(a) THEN o
    ELSE IF a[k + 1] = f_name /\ k + 1 < Len(a)
         THEN walletArgs(a, k + 2, [o EXCEPT !.name = a[k + 2]])
    ELSE IF a[k + 1] = f_network /\ k + 1 < Len(a)
         THEN walletArgs(a, k + 2, [o EXCEPT !.network = a[k + 2]])
    ELSE walletArgs(a, k + 1, o)

WalletParse ==
    /\ tool = "wallet" /\ pc = "start"
    /\ opts' = walletArgs(args, 0, WalletLocals)
    /\ pc' = "validate"
    /\ UNCHANGED << inputs, exitCode, out, calls, envReads,
                    network, apiKey, finalNetwork, i, parsed, result, files >>

walletNetworks == << s_testnet, s_mainnet, s_preprod, s_preview >>

\* preprod and preview become testnet for the SDK
meshNetwork(n) == IF includes(<< s_preprod, s_preview >>, n) THEN s_testnet ELSE n

WalletValidate ==
    /\ tool = "wallet" /\ pc = "validate"
    /\ IF ~includes(walletNetworks, opts.network)
       THEN /\ Exit(1, << Msg("stderr", "Network must be one of", opts.network) >>)
            /\ UNCHANGED finalNetwork
       ELSE /\ finalNetwork' = meshNetwork(opts.network)
            /\ out' = Append(out, Msg("stdout", "Cardano Wallet Creator", opts.network))
            /\ pc' = "createWallet"
            /\ UNCHANGED exitCode
    /\ UNCHANGED << inputs, calls, envReads, opts, network, apiKey,
                    i, parsed, result, files >>

\* what the clock reads when createWallet formats its timestamp
Timestamps == { << "t","1" >>, << "t","2" >> }

\* `${timestamp}-${baseFilenamePrefix}`
baseFilename(timestamp, prefix) == timestamp \o << "-" >> \o prefix

File(base, ext, content) == [base |-> base, ext |-> ext, content |-> content]

s_words == << "w","o","r","d","s" >>
s_address == << "a","d","d","r" >>
s_vkey == << "v","k" >>

\* what a step of createWallet does: it goes through, or throws
StepOutcomes == { "ok", "throws" }

\* the directory, the mnemonic and its file
CreateWalletMnemonic ==
    /\ tool = "wallet" /\ pc = "createWallet"
    /\ \E dir \in StepOutcomes, write \in StepOutcomes, now \in Timestamps :
         IF dir = "throws"
         THEN /\ write = "ok"
              /\ pc' = "catch"
              /\ UNCHANGED << calls, files, out, opts >>
         ELSE /\ opts' = [opts EXCEPT !.baseFilename = baseFilename(now, opts.name)]
              /\ calls' = Append(calls, Call("MeshWallet.brew", FALSE, finalNetwork,
                                             Undefined, << >>))
              /\ IF write = "throws"
                 THEN /\ pc' = "catch"
                      /\ UNCHANGED << files, out >>
                 ELSE /\ files' = Append(files, File(opts'.baseFilename,
                                                     "mnemonic", s_words))
                      /\ out' = Append(out, Msg("stdout", "Mnemonic saved", << >>))
                      /\ pc' = "createWalletAddr"
    /\ UNCHANGED << inputs, exitCode, envReads, network, apiKey,
                    finalNetwork, i, parsed, result >>

\* the wallet, its address and key hash, and the address file
CreateWalletAddr ==
    /\ tool = "wallet" /\ pc = "createWalletAddr"
    /\ \E derive \in StepOutcomes, write \in StepOutcomes :
         /\ calls' = calls \o
                << Call("MeshWallet", FALSE, finalNetwork, Undefined, "mnemonic"),
                   Call("wallet.getUnusedAddresses", FALSE, finalNetwork, Undefined, << >>) >>
         /\ IF derive = "throws"
            THEN /\ write = "ok"
                 /\ pc' = "catch"
                 /\ UNCHANGED << files, out >>
            ELSE IF write = "throws"
            THEN /\ pc' = "catch"
                 /\ UNCHANGED << files, out >>
            ELSE /\ files' = Append(files, File(opts.baseFilename, "addr", s_address))
                 /\ out' = Append(out, Msg("stdout", "Wallet Address saved", << >>))
                 /\ pc' = "createWalletVkey"
    /\ UNCHANGED << inputs, exitCode, envReads, opts, network, apiKey,
                    finalNetwork, i, parsed, result >>

\* the key-hash file and the result
CreateWalletVkey ==
    /\ tool = "wallet" /\ pc = "createWalletVkey"
    /\ \E write \in StepOutcomes :
         IF write = "throws"
         THEN /\ pc' = "catch"
              /\ UNCHANGED << files, out, result >>
         ELSE /\ files' = Append(files, File(opts.baseFilename, "vkey", s_vkey))
              /\ out' = Append(out, Msg("stdout", "Key Hash saved", << >>))
              /\ result' = [address |-> s_address, vKey |-> s_vkey,
                            mnemonic |-> s_words]
              /\ pc' = "returned"
    /\ UNCHANGED << inputs, exitCode, calls, envReads, opts, network, apiKey,
                    finalNetwork, i, parsed >>

\* the catch deleting what the run wrote
CreateWalletCatch_rollback ==
    /\ tool = "wallet" /\ pc = "catch"
    /\ out' = Append(out, Msg("stderr", "error during wallet generation", << >>))
    /\ result' = Null
    /\ files' = << >>
    /\ pc' = "returned"
    /\ UNCHANGED << inputs, exitCode, calls, envReads, opts, network, apiKey,
                    finalNetwork, i, parsed >>

\* the catch of createWallet: a message, and null for the caller
CreateWalletCatch ==
    /\ tool = "wallet" /\ pc = "catch"
    /\ out' = Append(out, Msg("stderr", "error during wallet generation", << >>))
    /\ result' = Null
    /\ pc' = "returned"
    /\ UNCHANGED << inputs, exitCode, calls, envReads, opts, network, apiKey,
                    finalNetwork, i, parsed, files >>

\* main goes on after `await createWallet(...)`, whatever it returned
WalletFinish ==
    /\ tool = "wallet" /\ pc = "returned"
    /\ out' = Append(out, Msg("stdout", "Wallet generation process finished", << >>))
    /\ exitCode' = 0
    /\ pc' = "exited"
    /\ UNCHANGED << inputs, calls, envReads, opts, network, apiKey,
                    finalNetwork, i, parsed, result, files >>

-----------------------------------------------------------------------------
(* The generic parseArgs of the payment tools *)

\* the key kept with its dashes
parseArgsKey_keepDashes(arg) == arg

\* arg.substring(2)
parseArgsKey(arg) == substring(arg, 2)

\* an iteration that takes a following token for a value only when it is
\* no flag itself
ParseArgsStep_valueNotFlag ==
    /\ tool = "parseArgs" /\ pc = "start"
    /\ i < Len(args)
    /\ LET arg == args[i + 1]
       IN  IF startsWith(arg, dashdash) /\ i + 1 < Len(args)
              /\ ~startsWith(args[i + 2], dashdash)
           THEN LET key == parseArgsKey(arg)
                    value == args[i + 2]
                IN  /\ parsed' = [ k \in DOMAIN parsed \cup { key } |->
                                     IF k = key THEN value ELSE parsed[k] ]
                    /\ i' = i + 2
           ELSE /\ i' = i + 1
                /\ UNCHANGED parsed
    /\ UNCHANGED << inputs, pc, exitCode, out, calls, envReads, opts,
                    network, apiKey, finalNetwork, result, files >>

\* one iteration of the loop, the index being 0-based
ParseArgsStep ==
    /\ tool = "parseArgs" /\ pc = "start"
    /\ i < Len(args)
    /\ LET arg == args[i + 1]
       IN  IF startsWith(arg, dashdash) /\ i + 1 < Len(args)
           THEN LET key == parseArgsKey(arg)
                    value == args[i + 2]
                IN  /\ parsed' = [ k \in DOMAIN parsed \cup { key } |->
                                     IF k = key THEN value ELSE parsed[k] ]
                    /\ i' = i + 2
           ELSE /\ i' = i + 1
                /\ UNCHANGED parsed
    /\ UNCHANGED << inputs, pc, exitCode, out, calls, envReads, opts,
                    network, apiKey, finalNetwork, result, files >>

ParseArgsReturn ==
    /\ tool = "parseArgs" /\ pc = "start"
    /\ i >= Len(args)
    /\ result' = parsed
    /\ pc' = "returned"
    /\ UNCHANGED << inputs, exitCode, out, calls, envReads, opts,
                    network, apiKey, finalNetwork, i, parsed, files >>

-----------------------------------------------------------------------------
(* getNetworkAndApiKey on its own: the caller receives the pair *)

ConfigReturn ==
    /\ tool = "config" /\ pc = "gotNetworkAndApiKey"
    /\ result' = [network |-> network, apiKey |-> apiKey]
    /\ pc' = "returned"
    /\ UNCHANGED << inputs, exitCode, out, calls, envReads, opts,
                    network, apiKey, finalNetwork, i, parsed, files >>

-----------------------------------------------------------------------------
(* The payment tools: values read from JSON, flags, configuration *)

\* a value that is no string, undefined or null (a number, an object)
NonString == << "non-string" >>

isString(v) == v # Undefined /\ v # Null /\ v # NonString

\* a || b
or(a, b) == IF Truthy(a) THEN a ELSE b

k_file == << "f","i","l","e" >>
k_payment_service_url == << "p","a","y","m","e","n","t","-","s","e","r","v","i","c","e","-","u","r","l" >>
k_api_key == << "a","p","i","-","k","e","y" >>
k_network == << "n","e","t","w","o","r","k" >>
k_blockchain_identifier == << "b","l","o","c","k","c","h","a","i","n","-","i","d","e","n","t","i","f","i","e","r" >>
k_agent_identifier == << "a","g","e","n","t","-","i","d","e","n","t","i","f","i","e","r" >>
k_seller_vkey == << "s","e","l","l","e","r","-","v","k","e","y" >>
k_input_data == << "i","n","p","u","t","-","d","a","t","a" >>
k_identifier == << "i","d","e","n","t","i","f","i","e","r" >>
k_output_file == << "o","u","t","p","u","t","-","f","i","l","e" >>
k_pay_by_time == << "p","a","y","-","b","y","-","t","i","m","e" >>
k_submit_result_time == << "s","u","b","m","i","t","-","r","e","s","u","l","t","-","t","i","m","e" >>
k_unlock_time == << "u","n","l","o","c","k","-","t","i","m","e" >>
k_external_dispute_unlock_time == << "e","x","t","e","r","n","a","l","-","d","i","s","p","u","t","e","-","u","n","l","o","c","k","-","t","i","m","e" >>
k_input_hash == << "i","n","p","u","t","-","h","a","s","h" >>

\* the flag token of a key
flag(key) == dashdash \o key

RECURSIVE parseArgsFrom(_, _, _)
\* parseArgs' loop from 0-based index k on, p being the mapping so far
parseArgsFrom(a, k, p) ==
    IF k >= Len(a) THEN p
    ELSE IF startsWith(a[k + 1], dashdash) /\ k + 1 < Len(a)
         THEN parseArgsFrom(a, k + 2,
                  [ key \in DOMAIN p \cup { parseArgsKey(a[k + 1]) } |->
                      IF key = parseArgsKey(a[k + 1]) THEN a[k + 2] ELSE p[key] ])
    ELSE parseArgsFrom(a, k + 1, p)

\* args[key]
arg(p, key) == IF key \in DOMAIN p THEN p[key] ELSE Undefined

s_Preprod == << "P","r","e","p","r","o","d" >>

\* a MasumiConfig object, or (defined FALSE) no object at all
Config(url, key, agent, net, vkey) ==
    [defined |-> TRUE, paymentServiceUrl |-> url, apiKey |-> key,
     agentIdentifier |-> agent, network |-> net, sellerVkey |-> vkey]

NoConfig ==
    [defined |-> FALSE, paymentServiceUrl |-> Undefined, apiKey |-> Undefined,
     agentIdentifier |-> Undefined, network |-> Undefined, sellerVkey |-> Undefined]

\* an array of payments, a value that is no array, or nothing
Arr(items) == [t |-> "array", v |-> items]
NotArr == [t |-> "other", v |-> << >>]
NoArr == [t |-> "undefined", v |-> << >>]

Payment(b, s) == [blockchainIdentifier |-> b, onChainState |-> s]

\* the data object of a service response, or (defined FALSE) none
Data(b, pay, submit, unlock, dispute, hash, lower, upper) ==
    [defined |-> TRUE, blockchainIdentifier |-> b, payByTime |-> pay,
     submitResultTime |-> submit, unlockTime |-> unlock,
     externalDisputeUnlockTime |-> dispute, inputHash |-> hash,
     payments |-> lower, Payments |-> upper]

NoData ==
    [defined |-> FALSE, blockchainIdentifier |-> Undefined, payByTime |-> Undefined,
     submitResultTime |-> Undefined, unlockTime |-> Undefined,
     externalDisputeUnlockTime |-> Undefined, inputHash |-> Undefined,
     payments |-> NoArr, Payments |-> NoArr]

\* a parsed response body: null, an object, or (kind "undefined") none
Response(data, b, s) ==
    [kind |-> "object", data |-> data, blockchainIdentifier |-> b, onChainState |-> s]

NullResponse ==
    [kind |-> "null", data |-> NoData, blockchainIdentifier |-> Undefined,
     onChainState |-> Undefined]

NoResponse ==
    [kind |-> "undefined", data |-> NoData, blockchainIdentifier |-> Undefined,
     onChainState |-> Undefined]

\* the paymentData object of a bundle, or (defined FALSE) none
PaymentData(id, hash) ==
    [defined |-> TRUE, identifierFromPurchaser |-> id, inputHash |-> hash]

NoPaymentData ==
    [defined |-> FALSE, identifierFromPurchaser |-> Undefined, inputHash |-> Undefined]

\* what JSON.parse(readFileSync(path)) gives: it throws, null, or an object
\* with the fields a payment-output bundle has
FileData(config, paymentData, response) ==
    [kind |-> "object", config |-> config, paymentData |-> paymentData,
     response |-> response]

UnreadableFile ==
    [kind |-> "throws", config |-> NoConfig, paymentData |-> NoPaymentData,
     response |-> NoResponse]

NullFile ==
    [kind |-> "null", config |-> NoConfig, paymentData |-> NoPaymentData,
     response |-> NoResponse]

\* the locals of a payment tool's main
PayLocals ==
    [config |-> NoConfig, paymentIdentifier |-> Undefined,
     identifierFromPurchaser |-> Undefined, paymentResponse |-> NoResponse,
     inputData |-> Undefined, inputHash |-> Undefined]

PayTools == { "paymentCreate", "paymentCheck", "purchaseCreate" }

\* const args = parseArgs()
PayParse ==
    /\ tool \in PayTools /\ pc = "start"
    /\ parsed' = parseArgsFrom(args, 0, << >>)
    /\ pc' = "source"
    /\ UNCHANGED << inputs, exitCode, out, calls, envReads, opts,
                    network, apiKey, finalNetwork, i, result, files >>

\* the working directory of the process
s_cwd == << "/","w" >>

\* the path a relative name stands for in the working directory
inCwd(f) ==
    IF startsWith(f, << ".","/" >>) THEN s_cwd \o << "/" >> \o substring(f, 2)
    ELSE s_cwd \o << "/" >> \o f

\* the file readFileSync and writeFileSync open for a path
fsPath(f) == IF startsWith(f, << "/" >>) THEN f ELSE inCwd(f)

BundleFile(path, content) == [path |-> path, content |-> content]

\* whether a file of this run sequence was written at the path
written(fs, path) == \E k \in 1..Len(fs) : fs[k].path = path

\* the content last written at the path
contentAt(fs, path) ==
    fs[CHOOSE k \in 1..Len(fs) :
          /\ fs[k].path = path
          /\ \A j \in 1..Len(fs) : fs[j].path = path => j <= k].content

\* an uncaught TypeError: the promise main() returned is rejected and the
\* runtime ends the process with status 1
Crash == Exit(1, << Msg("stderr", "TypeError", << >>) >>)

-----------------------------------------------------------------------------
(* masumi-payment-check.ts *)

a_b1 == << "b","1" >>
a_b2 == << "b","2" >>

s_FundsLocked == << "F","u","n","d","s","L","o","c","k","e","d" >>
s_ResultSubmitted == << "R","e","s","u","l","t","S","u","b","m","i","t","t","e","d" >>
s_Withdrawn == << "W","i","t","h","d","r","a","w","n" >>
s_FundsOrDatumInvalid == << "F","u","n","d","s","O","r","D","a","t","u","m","I","n","v","a","l","i","d" >>
s_RefundRequested == << "R","e","f","u","n","d","R","e","q","u","e","s","t","e","d" >>
s_Disputed == << "D","i","s","p","u","t","e","d" >>
s_RefundWithdrawn == << "R","e","f","u","n","d","W","i","t","h","d","r","a","w","n" >>
s_DisputedWithdrawn == << "D","i","s","p","u","t","e","d","W","i","t","h","d","r","a","w","n" >>
s_Pending == << "P","e","n","d","i","n","g" >>
s_fundslocked == << "f","u","n","d","s","l","o","c","k","e","d" >>

\* the values onChainState takes in a response: the service's states, no
\* field, null, the empty string and names the tool does not know
OnChainStates ==
    { s_FundsLocked, s_ResultSubmitted, s_Withdrawn, s_FundsOrDatumInvalid,
      s_RefundRequested, s_Disputed, s_RefundWithdrawn, s_DisputedWithdrawn,
      Undefined, Null, << >>, s_Pending, s_fundslocked }

failedStates ==
    << s_FundsOrDatumInvalid, s_RefundRequested, s_Disputed, s_RefundWithdrawn,
       s_DisputedWithdrawn >>

\* the chain with an unknown state taken for a failure
classify_unknownFails(onChainState) ==
    IF onChainState = s_FundsLocked THEN "SUCCESS: Funds are locked"
    ELSE IF onChainState = s_ResultSubmitted \/ onChainState = s_Withdrawn
         THEN "SUCCESS: Payment already processed"
    ELSE IF Truthy(onChainState)
         THEN "FAILED: Payment failed with state"
    ELSE "PENDING: Still processing"

\* the if-chain that interprets the status
classify(onChainState) ==
    IF onChainState = s_FundsLocked THEN "SUCCESS: Funds are locked"
    ELSE IF onChainState = s_ResultSubmitted \/ onChainState = s_Withdrawn
         THEN "SUCCESS: Payment already processed"
    ELSE IF Truthy(onChainState) /\ includes(failedStates, onChainState)
         THEN "FAILED: Payment failed with state"
    ELSE "PENDING: Still processing"

\* what the file at a path holds when payment check reads it
CheckFileData ==
    { UnreadableFile, NullFile }
    \cup { FileData(c, NoPaymentData, r) :
             c \in { NoConfig,
                     Config(<< "f","u" >>, << "f","k" >>, Undefined, << "M","a","i","n","n","e","t" >>, Undefined),
                     Config(<< "f","u" >>, << "f","k" >>, Undefined, Undefined, Undefined),
                     Config(<< "f","u" >>, Undefined, Undefined, << "M","a","i","n","n","e","t" >>, Undefined) },
             r \in { NoResponse,
                     Response(NoData, Undefined, Undefined),
                     Response(Data(Undefined, Undefined, Undefined, Undefined,
                                   Undefined, Undefined, NoArr, NoArr),
                              Undefined, Undefined),
                     Response(Data(<< >>, Undefined, Undefined, Undefined,
                                   Undefined, Undefined, NoArr, NoArr),
                              Undefined, Undefined),
                     Response(Data(NonString, Undefined, Undefined, Undefined,
                                   Undefined, Undefined, NoArr, NoArr),
                              Undefined, Undefined),
                     Response(Data(a_b1, Undefined, Undefined, Undefined,
                                   Undefined, Undefined, NoArr, NoArr),
                              Undefined, Undefined) } }

\* loadFromFile: the file a run wrote before, or what the disk holds
loadFromFile(fs, path, onDisk) ==
    IF written(fs, fsPath(path)) THEN { contentAt(fs, fsPath(path)) } ELSE onDisk

\* the configuration of payment check in flag mode, and its fallback in file
\* mode when the file has no config
checkConfig(p, e) ==
    Config(or(arg(p, k_payment_service_url), e.MASUMI_PAYMENT_SERVICE_URL),
           or(arg(p, k_api_key), e.MASUMI_API_KEY),
           Undefined,
           or(or(arg(p, k_network), e.MASUMI_NETWORK), s_Preprod),
           Undefined)

checkFileFallback(e) ==
    Config(e.MASUMI_PAYMENT_SERVICE_URL, e.MASUMI_API_KEY, Undefined,
           or(e.MASUMI_NETWORK, s_Preprod), Undefined)

\* fileData.config || { ... }: the file's config as a whole, when it has one
checkFileConfig(fd, e) == IF fd.config.defined THEN fd.config ELSE checkFileFallback(e)

\* fileData.response?.data?.blockchainIdentifier
fileBlockchainIdentifier(fd) ==
    IF fd.response.kind = "object" /\ fd.response.data.defined
    THEN fd.response.data.blockchainIdentifier
    ELSE Undefined

\* main up to the check of the blockchain identifier
CheckSource ==
    /\ tool = "paymentCheck" /\ pc = "source"
    /\ IF Truthy(arg(parsed, k_file))
       THEN \E fd \in loadFromFile(files, arg(parsed, k_file), CheckFileData) :
              IF fd.kind = "throws"
              THEN /\ Exit(1, << Msg("stdout", "Loading data from file", << >>),
                                 Msg("stderr", "Error loading file", << >>) >>)
                   /\ UNCHANGED opts
              ELSE IF fd.kind = "null"
              THEN /\ Crash
                   /\ UNCHANGED opts
              ELSE /\ opts' = [opts EXCEPT
                                 !.config = checkFileConfig(fd, env),
                                 !.paymentIdentifier = fileBlockchainIdentifier(fd)]
                   /\ IF ~Truthy(fileBlockchainIdentifier(fd))
                      THEN Exit(1, << Msg("stdout", "Loading data from file", << >>),
                                      Msg("stderr", "No blockchainIdentifier found in file",
                                          << >>) >>)
                      ELSE /\ out' = Append(out, Msg("stdout", "Loading data from file",
                                                     << >>))
                           /\ pc' = "required"
                           /\ UNCHANGED exitCode
       ELSE /\ opts' = [opts EXCEPT
                          !.config = checkConfig(parsed, env),
                          !.paymentIdentifier = arg(parsed, k_blockchain_identifier)]
            /\ IF ~Truthy(arg(parsed, k_blockchain_identifier))
               THEN Exit(1, << Msg("stderr", "Missing required parameter",
                                   k_blockchain_identifier),
                               Msg("stderr", "Usage", << >>) >>)
               ELSE /\ pc' = "required"
                    /\ UNCHANGED << exitCode, out >>
    /\ UNCHANGED << inputs, calls, envReads, network, apiKey, finalNetwork,
                    i, parsed, result, files >>

s_paymentServiceUrl == << "p","a","y","m","e","n","t","S","e","r","v","i","c","e","U","r","l" >>
s_apiKey == << "a","p","i","K","e","y" >>
s_agentIdentifier == << "a","g","e","n","t","I","d","e","n","t","i","f","i","e","r" >>
s_sellerVkey == << "s","e","l","l","e","r","V","k","e","y" >>

\* config[key]
configField(c, key) ==
    IF key = s_paymentServiceUrl THEN c.paymentServiceUrl
    ELSE IF key = s_apiKey THEN c.apiKey
    ELSE IF key = s_agentIdentifier THEN c.agentIdentifier
    ELSE IF key = s_sellerVkey THEN c.sellerVkey
    ELSE Undefined

\* the validation finding nothing missing
missingKeys_none(c, required) == << >>

\* the keys of the required list the configuration lacks, in the list's order
missingKeys(c, required) ==
    SelectSeq(required, LAMBDA key : ~Truthy(configField(c, key)))

checkRequired == << s_paymentServiceUrl, s_apiKey >>

\* the validation of the configuration and the lines before the request
CheckRequired ==
    /\ tool = "paymentCheck" /\ pc = "required"
    /\ IF missingKeys(opts.config, checkRequired) # << >>
       THEN Exit(1, << Msg("stderr", "Missing required parameter",
                           Head(missingKeys(opts.config, checkRequired))) >>)
       ELSE IF ~isString(opts.paymentIdentifier)
       THEN Crash
       ELSE /\ out' = Append(out, Msg("stdout", "Payment ID", opts.paymentIdentifier))
            /\ pc' = "request"
            /\ UNCHANGED exitCode
    /\ UNCHANGED << inputs, calls, envReads, opts, network, apiKey, finalNetwork,
                    i, parsed, result, files >>

\* what fetch and response.json() do besides answering with a body: fetch
\* throws, the status is no success, the body is no JSON
HttpFailures == { "throws", "notOk", "badJson" }

\* the body of a request to the payment service; JSON.stringify leaves the
\* undefined fields out
Body(b, id, agent, vkey, hash, pay, submit, unlock, dispute) ==
    [blockchainIdentifier |-> b, identifierFromPurchaser |-> id,
     agentIdentifier |-> agent, sellerVkey |-> vkey, inputHash |-> hash,
     payByTime |-> pay, submitResultTime |-> submit, unlockTime |-> unlock,
     externalDisputeUnlockTime |-> dispute]

\* a request to the payment service
Request(api, c, body) ==
    [api |-> api, remote |-> TRUE, network |-> c.network, projectId |-> c.apiKey,
     url |-> c.paymentServiceUrl, arg |-> body]

FoundPayment(b, s) == [found |-> TRUE, blockchainIdentifier |-> b, onChainState |-> s]
NoPayment == [found |-> FALSE, blockchainIdentifier |-> Undefined, onChainState |-> Undefined]

\* array.find(p => p.blockchainIdentifier === id)
find(items, id) ==
    IF \E k \in 1..Len(items) : items[k].blockchainIdentifier = id
    THEN LET k == CHOOSE k \in 1..Len(items) :
                     /\ items[k].blockchainIdentifier = id
                     /\ \A j \in 1..(k - 1) : items[j].blockchainIdentifier # id
         IN  FoundPayment(items[k].blockchainIdentifier, items[k].onChainState)
    ELSE NoPayment

\* the search going on to the next shape when a list holds no match
findPayment_allShapes(r, id) ==
    IF r.data.defined /\ r.data.payments.t = "array" /\ find(r.data.payments.v, id).found
    THEN find(r.data.payments.v, id)
    ELSE IF r.data.defined /\ r.data.Payments.t = "array" /\ find(r.data.Payments.v, id).found
    THEN find(r.data.Payments.v, id)
    ELSE IF r.blockchainIdentifier = id
         THEN FoundPayment(r.blockchainIdentifier, r.onChainState)
    ELSE NoPayment

\* the payment checkPaymentStatus picks from the parsed body
findPayment(r, id) ==
    IF r.data.defined /\ r.data.payments.t = "array" THEN find(r.data.payments.v, id)
    ELSE IF r.data.defined /\ r.data.Payments.t = "array" THEN find(r.data.Payments.v, id)
    ELSE IF r.blockchainIdentifier = id
         THEN FoundPayment(r.blockchainIdentifier, r.onChainState)
    ELSE NoPayment

ListData(lower, upper) ==
    Data(Undefined, Undefined, Undefined, Undefined, Undefined, Undefined, lower, upper)

\* the bodies the payment service answers a status request with
CheckResults ==
    { NullResponse }
    \cup { Response(ListData(Arr(<< Payment(a_b1, s) >>), NoArr), Undefined, Undefined) :
             s \in OnChainStates }
    \cup { Response(ListData(Arr(<< Payment(a_b2, s_FundsLocked),
                                    Payment(a_b1, s_RefundRequested) >>), NoArr),
                    Undefined, Undefined),
           Response(ListData(Arr(<< >>), Arr(<< Payment(a_b1, s_FundsLocked) >>)),
                    Undefined, Undefined),
           Response(ListData(NoArr, Arr(<< Payment(a_b1, s_Withdrawn) >>)),
                    Undefined, Undefined),
           Response(ListData(NotArr, Arr(<< Payment(a_b1, s_ResultSubmitted) >>)),
                    Undefined, Undefined),
           Response(ListData(NoArr, NoArr), a_b1, s_Disputed),
           Response(NoData, a_b1, s_DisputedWithdrawn),
           Response(NoData, a_b2, s_FundsLocked),
           Response(NoData, Undefined, Undefined) }

\* the requests one call of the worker function sends
sendOnce_twice(request) == << request, request >>

sendOnce(request) == << request >>

\* checkPaymentStatus and the catch of main
CheckPaymentStatus ==
    /\ tool = "paymentCheck" /\ pc = "request"
    /\ calls' = calls \o sendOnce(Request("GET /payment/", opts.config,
                    Body(opts.paymentIdentifier, Undefined, Undefined, Undefined,
                         Undefined, Undefined, Undefined, Undefined, Undefined)))
    /\ \E failure \in HttpFailures \cup { "none" }, r \in CheckResults :
         IF failure # "none"
         THEN /\ r = NullResponse
              /\ Exit(1, << Msg("stderr", "Error checking payment status", << >>),
                            Msg("stderr", "Payment status check failed", << >>) >>)
              /\ UNCHANGED result
         ELSE IF r.kind = "null"
         THEN /\ Exit(1, << Msg("stderr", "Error checking payment status", << >>),
                            Msg("stderr", "Payment status check failed", << >>) >>)
              /\ UNCHANGED result
         ELSE /\ result' = findPayment(r, opts.paymentIdentifier)
              /\ pc' = "report"
              /\ UNCHANGED << exitCode, out >>
    /\ UNCHANGED << inputs, envReads, opts, network, apiKey, finalNetwork,
                    i, parsed, files >>

\* the report of main and its normal end
CheckReport ==
    /\ tool = "paymentCheck" /\ pc = "report"
    /\ out' = out \o
         ( IF result.found
           THEN << Msg("stdout", "Payment found", result.blockchainIdentifier),
                   Msg("stdout", classify(result.onChainState), result.onChainState) >>
           ELSE << Msg("stdout", "Payment not found", << >>) >> )
         \o << Msg("stdout", "Payment status check completed", << >>) >>
    /\ exitCode' = 0
    /\ pc' = "exited"
    /\ UNCHANGED << inputs, calls, envReads, opts, network, apiKey, finalNetwork,
                    i, parsed, result, files >>

-----------------------------------------------------------------------------
(* masumi-payment-create.ts *)

\* the configuration of payment create, and of purchase create in flag mode
createConfig(p, e) ==
    Config(or(arg(p, k_payment_service_url), e.MASUMI_PAYMENT_SERVICE_URL),
           or(arg(p, k_api_key), e.MASUMI_API_KEY),
           or(arg(p, k_agent_identifier), e.MASUMI_AGENT_IDENTIFIER),
           or(or(arg(p, k_network), e.MASUMI_NETWORK), s_Preprod),
           or(arg(p, k_seller_vkey), e.MASUMI_SELLER_VKEY))

createRequired == << s_paymentServiceUrl, s_apiKey, s_agentIdentifier, s_sellerVkey >>

s_defaultInput == << "{","\"","t","e","x","t","\"",":"," ","\"","m","a","s","u","m","i"," ","p","a","y","m","e","n","t"," ","t","e","s","t","\"","}" >>

\* whether a text is a JSON scalar: null, true, false, digits, a string
jsonScalar(s) ==
    \/ s \in { << "n","u","l","l" >>, << "t","r","u","e" >>, << "f","a","l","s","e" >> }
    \/ Len(s) > 0 /\ digitRun(s, 1) = Len(s)
    \/ /\ Len(s) >= 2 /\ s[1] = "\"" /\ s[Len(s)] = "\""
       /\ \A k \in 2..(Len(s) - 1) : s[k] # "\""

\* the text without its blanks
RECURSIVE noBlanks(_)
noBlanks(s) ==
    IF s = << >> THEN << >>
    ELSE IF Head(s) = " " THEN noBlanks(Tail(s))
    ELSE << Head(s) >> \o noBlanks(Tail(s))

\* whether JSON.parse accepts the text: a scalar, {} or an object of one
\* member whose value is a scalar (the texts the tool is given)
jsonValid(s) ==
    \/ jsonScalar(s)
    \/ s = << "{","}" >>
    \/ /\ Len(s) >= 2 /\ s[1] = "{" /\ s[Len(s)] = "}"
       /\ \E c \in 2..(Len(s) - 1) :
            /\ s[c] = ":"
            /\ \A k \in 2..(c - 1) : s[k] # ":"
            /\ LET key == SubSeq(s, 2, c - 1)
                   value == IF c + 1 <= Len(s) - 1 /\ s[c + 1] = " "
                            THEN SubSeq(s, c + 2, Len(s) - 1)
                            ELSE SubSeq(s, c + 1, Len(s) - 1)
               IN  /\ Len(key) >= 2 /\ key[1] = "\"" /\ key[Len(key)] = "\""
                   /\ \A k \in 2..(Len(key) - 1) : key[k] # "\""
                   /\ jsonScalar(value)

\* JSON.stringify(JSON.parse(s)) for a member value: the blank after the
\* colon goes
jsonCanonical(s) ==
    IF jsonScalar(s) \/ s = << "{","}" >> THEN s
    ELSE LET c == CHOOSE c \in 2..(Len(s) - 1) :
                      s[c] = ":" /\ \A k \in 2..(c - 1) : s[k] # ":"
         IN  IF s[c + 1] = " "
             THEN SubSeq(s, 1, c) \o SubSeq(s, c + 2, Len(s))
             ELSE s

\* createHash('sha256').update(text).digest('hex'), kept as a function of the text
sha256(text) == << "#" >> \o text

\* randomBytes(7).toString('hex')
RandomIdentifiers == { << "r","1" >>, << "r","2" >> }

\* main up to the request: the configuration, its validation, the input data
CreateValidate ==
    /\ tool = "paymentCreate" /\ pc = "source"
    /\ LET config == createConfig(parsed, env)
           inputDataStr == or(arg(parsed, k_input_data), s_defaultInput)
       IN  IF missingKeys(config, createRequired) # << >>
           THEN /\ Exit(1, << Msg("stderr", "Missing required parameter",
                                  Head(missingKeys(config, createRequired))),
                              Msg("stderr", "Usage", << >>) >>)
                /\ opts' = [opts EXCEPT !.config = config]
           ELSE IF ~jsonValid(inputDataStr)
           THEN /\ Exit(1, << Msg("stderr", "Invalid JSON in --input-data", << >>) >>)
                /\ opts' = [opts EXCEPT !.config = config]
           ELSE \E random \in RandomIdentifiers :
                  /\ opts' = [opts EXCEPT
                                !.config = config,
                                !.inputData = jsonCanonical(inputDataStr),
                                !.inputHash = sha256(jsonCanonical(inputDataStr)),
                                !.identifierFromPurchaser =
                                    or(arg(parsed, k_identifier), random)]
                  /\ out' = Append(out, Msg("stdout", "Identifier",
                                            or(arg(parsed, k_identifier), random)))
                  /\ pc' = "request"
                  /\ UNCHANGED exitCode
    /\ UNCHANGED << inputs, calls, envReads, network, apiKey, finalNetwork,
                    i, parsed, result, files >>

a_t1 == << "1","7","0","0","0","0","0","0","0","0","0","0","0" >>

\* the data of an answer: the identifier and the times the service set
AnswerData(b) == Data(b, a_t1, a_t1, a_t1, a_t1, << "#","h" >>, NoArr, NoArr)

\* the bodies the payment service answers a payment request with
CreateResults ==
    { NullResponse,
      Response(NoData, Undefined, Undefined),
      Response(AnswerData(Undefined), Undefined, Undefined),
      Response(AnswerData(<< >>), Undefined, Undefined),
      Response(AnswerData(NonString), Undefined, Undefined),
      Response(AnswerData(a_b1), Undefined, Undefined) }

\* createPayment swallowing its error: main goes on with an empty answer
CreatePayment_failureIgnored ==
    /\ tool = "paymentCreate" /\ pc = "request"
    /\ calls' = calls \o sendOnce(Request("POST /payment/", opts.config,
                    Body(Undefined, opts.identifierFromPurchaser,
                         opts.config.agentIdentifier, Undefined, opts.inputHash,
                         Undefined, Undefined, Undefined, Undefined)))
    /\ \E failure \in HttpFailures \cup { "none" }, r \in CreateResults :
         /\ failure # "none" => r = Response(NoData, Undefined, Undefined)
         /\ result' = r
         /\ out' = Append(out, IF failure # "none"
                               THEN Msg("stderr", "Error creating payment", << >>)
                               ELSE Msg("stdout", "Payment created successfully", << >>))
         /\ pc' = "details"
         /\ UNCHANGED exitCode
    /\ UNCHANGED << inputs, envReads, opts, network, apiKey, finalNetwork,
                    i, parsed, files >>

\* createPayment and the catch of main
CreatePayment ==
    /\ tool = "paymentCreate" /\ pc = "request"
    /\ calls' = calls \o sendOnce(Request("POST /payment/", opts.config,
                    Body(Undefined, opts.identifierFromPurchaser,
                         opts.config.agentIdentifier, Undefined, opts.inputHash,
                         Undefined, Undefined, Undefined, Undefined)))
    /\ \E failure \in HttpFailures \cup { "none" }, r \in CreateResults :
         IF failure # "none"
         THEN /\ r = NullResponse
              /\ Exit(1, << Msg("stderr", "Error creating payment", << >>),
                            Msg("stderr", "Payment creation failed", << >>) >>)
              /\ UNCHANGED result
         ELSE /\ result' = r
              /\ out' = Append(out, Msg("stdout", "Payment created successfully", << >>))
              /\ pc' = "details"
              /\ UNCHANGED exitCode
    /\ UNCHANGED << inputs, envReads, opts, network, apiKey, finalNetwork,
                    i, parsed, files >>

\* outputFile.startsWith('/') ? outputFile : join(process.cwd(), outputFile)
outputPath(outputFile) ==
    IF startsWith(outputFile, << "/" >>) THEN outputFile ELSE inCwd(outputFile)

\* { config, paymentData, response: result, createdAt } as JSON.stringify
\* writes and JSON.parse reads it: the fields that are undefined are left out
outputData(o, r) ==
    FileData(o.config, PaymentData(o.identifierFromPurchaser, o.inputHash), r)

\* whether main gets as far as the output file: reading
\* result.data?.blockchainIdentifier?.substring throws on null and on an
\* identifier that is no string
createSaves(r) ==
    /\ r.kind # "null"
    /\ ~(r.data.defined /\ r.data.blockchainIdentifier = NonString)

\* the details, the output file and the normal end of main
CreateDetails ==
    /\ tool = "paymentCreate" /\ pc = "details"
    /\ IF ~createSaves(result)
       THEN /\ Exit(1, << Msg("stderr", "Payment creation failed", << >>) >>)
            /\ UNCHANGED files
       ELSE IF Truthy(arg(parsed, k_output_file))
       THEN \E write \in StepOutcomes :
              IF write = "throws"
              THEN /\ Exit(1, << Msg("stdout", "Payment Details", << >>),
                                 Msg("stderr", "Payment creation failed", << >>) >>)
                   /\ UNCHANGED files
              ELSE /\ files' = Append(files,
                                  BundleFile(outputPath(arg(parsed, k_output_file)),
                                             outputData(opts, result)))
                   /\ out' = out \o << Msg("stdout", "Payment Details", << >>),
                                       Msg("stdout", "Output saved",
                                           outputPath(arg(parsed, k_output_file))),
                                       Msg("stdout", "Payment creation completed", << >>) >>
                   /\ exitCode' = 0
                   /\ pc' = "exited"
       ELSE /\ out' = out \o << Msg("stdout", "Payment Details", << >>),
                                Msg("stdout", "Payment creation completed", << >>) >>
            /\ exitCode' = 0
            /\ pc' = "exited"
            /\ UNCHANGED files
    /\ UNCHANGED << inputs, calls, envReads, opts, network, apiKey, finalNetwork,
                    i, parsed, result >>

-----------------------------------------------------------------------------
(* masumi-purchase-create.ts *)

\* the configuration with the environment ahead of the file
purchaseFileConfig_envFirst(fd, e) ==
    Config(or(e.MASUMI_PAYMENT_SERVICE_URL, fd.config.paymentServiceUrl),
           or(e.MASUMI_API_KEY, fd.config.apiKey),
           or(e.MASUMI_AGENT_IDENTIFIER, fd.config.agentIdentifier),
           or(or(e.MASUMI_NETWORK, fd.config.network), s_Preprod),
           or(e.MASUMI_SELLER_VKEY, fd.config.sellerVkey))

\* the configuration of purchase create in file mode: each field from the
\* file's config, else from the environment
purchaseFileConfig(fd, e) ==
    Config(or(fd.config.paymentServiceUrl, e.MASUMI_PAYMENT_SERVICE_URL),
           or(fd.config.apiKey, e.MASUMI_API_KEY),
           or(fd.config.agentIdentifier, e.MASUMI_AGENT_IDENTIFIER),
           or(or(fd.config.network, e.MASUMI_NETWORK), s_Preprod),
           or(fd.config.sellerVkey, e.MASUMI_SELLER_VKEY))

\* what the file at a path holds when purchase create reads it
PurchaseFileData ==
    { UnreadableFile, NullFile }
    \cup { FileData(c, d, r) :
             c \in { NoConfig,
                     Config(<< "f","u" >>, << "f","k" >>, << "f","a" >>, << "M","a","i","n","n","e","t" >>, << "f","v" >>),
                     Config(<< "f","u" >>, << "f","k" >>, Undefined, Undefined, << "f","v" >>) },
             d \in { NoPaymentData, PaymentData(Undefined, << "#","h" >>),
                     PaymentData(<< "p","1" >>, << "#","h" >>) },
             r \in { NoResponse, NullResponse,
                     Response(NoData, Undefined, Undefined),
                     Response(AnswerData(Undefined), Undefined, Undefined),
                     Response(AnswerData(NonString), Undefined, Undefined),
                     Response(AnswerData(a_b1), Undefined, Undefined) } }

\* the flags of the payment parameters that flag mode requires
purchaseFlags ==
    << k_blockchain_identifier, k_pay_by_time, k_submit_result_time, k_unlock_time,
       k_external_dispute_unlock_time, k_input_hash, k_identifier >>

\* String(parseInt(s)): the leading digits, NaN without any
intText(s) == IF digitRun(s, 1) = 0 THEN << "N","a","N" >> ELSE SubSeq(s, 1, digitRun(s, 1))

\* String(v) for a value of a response
String(v) ==
    IF v = Undefined THEN << "u","n","d","e","f","i","n","e","d" >> ELSE IF v = Null THEN << "n","u","l","l" >> ELSE v

\* main up to the checks of the payment parameters
PurchaseSource ==
    /\ tool = "purchaseCreate" /\ pc = "source"
    /\ IF Truthy(arg(parsed, k_file))
       THEN \E fd \in loadFromFile(files, arg(parsed, k_file), PurchaseFileData) :
              IF fd.kind = "throws"
              THEN /\ Exit(1, << Msg("stdout", "Loading data from file", << >>),
                                 Msg("stderr", "Error loading file", << >>) >>)
                   /\ UNCHANGED opts
              ELSE IF fd.kind = "null"
              THEN /\ Crash
                   /\ UNCHANGED opts
              ELSE /\ opts' = [opts EXCEPT
                                 !.config = purchaseFileConfig(fd, env),
                                 !.paymentResponse = fd.response,
                                 !.identifierFromPurchaser =
                                     fd.paymentData.identifierFromPurchaser]
                   /\ IF \/ fd.response.kind # "object"
                         \/ ~Truthy(fd.paymentData.identifierFromPurchaser)
                      THEN Exit(1, << Msg("stdout", "Loading data from file", << >>),
                                      Msg("stderr", "Invalid file format", << >>) >>)
                      ELSE /\ out' = Append(out, Msg("stdout", "Loading data from file",
                                                     << >>))
                           /\ pc' = "required"
                           /\ UNCHANGED exitCode
       ELSE IF \E k \in 1..Len(purchaseFlags) : ~Truthy(arg(parsed, purchaseFlags[k]))
       THEN /\ Exit(1, << Msg("stderr", "Missing required payment parameters", << >>),
                          Msg("stderr", "Usage", << >>) >>)
            /\ opts' = [opts EXCEPT !.config = createConfig(parsed, env)]
       ELSE /\ opts' = [opts EXCEPT
                          !.config = createConfig(parsed, env),
                          !.identifierFromPurchaser = arg(parsed, k_identifier),
                          !.paymentResponse =
                              Response(Data(arg(parsed, k_blockchain_identifier),
                                            intText(arg(parsed, k_pay_by_time)),
                                            intText(arg(parsed, k_submit_result_time)),
                                            intText(arg(parsed, k_unlock_time)),
                                            intText(arg(parsed, k_external_dispute_unlock_time)),
                                            arg(parsed, k_input_hash), NoArr, NoArr),
                                       Undefined, Undefined)]
            /\ pc' = "required"
            /\ UNCHANGED << exitCode, out >>
    /\ UNCHANGED << inputs, calls, envReads, network, apiKey, finalNetwork,
                    i, parsed, result, files >>

\* the validation of the configuration and the lines before the request
PurchaseRequired ==
    /\ tool = "purchaseCreate" /\ pc = "required"
    /\ IF missingKeys(opts.config, createRequired) # << >>
       THEN Exit(1, << Msg("stderr", "Missing required parameter",
                           Head(missingKeys(opts.config, createRequired))) >>)
       ELSE IF /\ opts.paymentResponse.data.defined
               /\ opts.paymentResponse.data.blockchainIdentifier = NonString
       THEN Crash
       ELSE /\ out' = Append(out, Msg("stdout", "Purchaser ID",
                                      opts.identifierFromPurchaser))
            /\ pc' = "request"
            /\ UNCHANGED exitCode
    /\ UNCHANGED << inputs, calls, envReads, opts, network, apiKey, finalNetwork,
                    i, parsed, result, files >>

\* the bodies the payment service answers a purchase request with
PurchaseResults ==
    { NullResponse,
      Response(NoData, Undefined, Undefined),
      Response(AnswerData(NonString), Undefined, Undefined),
      Response(AnswerData(a_b1), Undefined, Undefined) }

\* the request body createPurchase builds from the payment response
purchaseBody(c, d, id) ==
    Body(d.blockchainIdentifier, id, c.agentIdentifier, c.sellerVkey, d.inputHash,
         String(d.payByTime), String(d.submitResultTime), String(d.unlockTime),
         String(d.externalDisputeUnlockTime))

\* createPurchase, the report and the catch of main
CreatePurchase ==
    /\ tool = "purchaseCreate" /\ pc = "request"
    /\ IF ~opts.paymentResponse.data.defined
       THEN /\ Exit(1, << Msg("stderr", "Purchase creation failed", << >>) >>)
            /\ UNCHANGED << calls, result >>
       ELSE /\ calls' = calls \o sendOnce(Request("POST /purchase/", opts.config,
                            purchaseBody(opts.config, opts.paymentResponse.data,
                                         opts.identifierFromPurchaser)))
            /\ \E failure \in HttpFailures \cup { "none" }, r \in PurchaseResults :
                 IF failure # "none"
                 THEN /\ r = NullResponse
                      /\ Exit(1, << Msg("stderr", "Error creating purchase", << >>),
                                    Msg("stderr", "Purchase creation failed", << >>) >>)
                      /\ UNCHANGED result
                 ELSE /\ result' = r
                      /\ IF r.kind = "null"
                            \/ (r.data.defined /\ r.data.blockchainIdentifier = NonString)
                         THEN Exit(1, << Msg("stdout", "Purchase created successfully", << >>),
                                         Msg("stderr", "Purchase creation failed", << >>) >>)
                         ELSE /\ out' = out \o
                                   << Msg("stdout", "Purchase created successfully", << >>),
                                      Msg("stdout", "Purchase creation completed", << >>) >>
                              /\ exitCode' = 0
                              /\ pc' = "exited"
    /\ UNCHANGED << inputs, envReads, opts, network, apiKey, finalNetwork,
                    i, parsed, files >>

-----------------------------------------------------------------------------
(* Bounds and inputs *)

\* the longest argument list of the balance check, the wallet creator and
\* parseArgs
MaxArgs == 4

ArgLists(tokens, n) == UNION { [1..m -> tokens] : m \in 0..n }

a_addr1 == << "a","d","d","r","1" >>
a_amount == << "5",".","0" >>
a_zero == << "0" >>
a_abc == << "a","b","c" >>
a_phrase == << "a"," ","b" >>
a_mnemonicFile == << ".","/","m" >>
a_skeyFile == << "k",".","s","k","e","y" >>
a_skey == << "{","}" >>

\* addr1 is an address and, after --network, a name that is no network;
\* preview is a network and, on its own, a second positional token
BalanceTokens == { f_address, f_network, a_addr1, s_preview }

WalletTokens == { f_name, f_network, s_wallet, s_preprod, s_bogus }

ParseTokens == { f_amount, f_recipient, a_amount, a_addr1 }

\* the argument lists of the ADA transfer: each flag absent or given a value
SendArgLists ==
    { r \o a \o m \o f \o k \o n :
        r \in { << >>, << f_recipient, a_addr1 >> },
        a \in { << >>, << f_amount, a_amount >>, << f_amount, a_zero >>,
                << f_amount, a_abc >> },
        m \in { << >>, << f_mnemonic, a_phrase >>, << f_mnemonic, a_mnemonicFile >> },
        f \in { << >>, << f_skey_file, a_skeyFile >> },
        k \in { << >>, << f_skey, a_skey >> },
        n \in { << >>, << f_network, s_mainnet >>, << f_network, s_bogus >> } }

Environments ==
    { MkEnv(nw, km, kp, kv) :
        nw \in NetworkEnvValues,
        km \in KeyValues("M"), kp \in KeyValues("P"), kv \in KeyValues("V") }

\* the environments and host states the tools are run in: each network is
\* resolved in some, with and without its credential, from the host, from
\* NETWORK and by default
ToolEnvironments ==
    { MkEnv(nw, km, kp, kv) :
        nw \in { Undefined, s_PREVIEW },
        km \in { Undefined, << "k", "M" >> },
        kp \in { << >>, << "k", "P" >> },
        kv \in { Undefined, << "k", "V" >> } }

ToolHostStates ==
    { [kind |-> "noimport", network |-> Undefined],
      [kind |-> "prefs", network |-> s_mainnet] }

InitLocals ==
    /\ exitCode = -1
    /\ out = << >>
    /\ calls = << >>
    /\ envReads = {}
    /\ network = Undefined
    /\ apiKey = Undefined
    /\ finalNetwork = Undefined
    /\ i = 0
    /\ parsed = << >>
    /\ result = Undefined
    /\ files = << >>

InitBalance ==
    /\ tool = "balance"
    /\ args \in ArgLists(BalanceTokens, MaxArgs)
    /\ host \in ToolHostStates
    /\ env \in ToolEnvironments
    /\ opts = [address |-> << >>, networkOverride |-> << >>]
    /\ pc = "start"
    /\ InitLocals

InitSend ==
    /\ tool = "send"
    /\ args \in SendArgLists
    /\ host \in ToolHostStates
    /\ env \in ToolEnvironments
    /\ opts = SendLocals
    /\ pc = "start"
    /\ InitLocals

InitWallet ==
    /\ tool = "wallet"
    /\ args \in ArgLists(WalletTokens, MaxArgs)
    /\ host = [kind |-> "noimport", network |-> Undefined]
    /\ env = MkEnv(Undefined, Undefined, Undefined, Undefined)
    /\ opts = WalletLocals
    /\ pc = "start"
    /\ InitLocals

a_file == << "p",".","j","s","o","n" >>

\* the argument lists of payment check: each flag absent or given a value
CheckArgLists ==
    { f \o u \o k \o b \o n :
        f \in { << >>, << flag(k_file), a_file >> },
        u \in { << >>, << flag(k_payment_service_url), << "a","u" >> >> },
        k \in { << >>, << flag(k_api_key), << "a","k" >> >> },
        b \in { << >>, << flag(k_blockchain_identifier), a_b1 >> },
        n \in { << >>, << flag(k_network), << "M","a","i","n","n","e","t" >> >> } }

\* the environments of payment check: each variable it reads unset or set
CheckEnvironments ==
    { MkPayEnv(url, key, Undefined, net, Undefined) :
        url \in { Undefined, << "e","u" >> },
        key \in { Undefined, << "e","k" >> },
        net \in { Undefined, << "P","r","e","v","i","e","w" >> } }

InitPaymentCheck ==
    /\ tool = "paymentCheck"
    /\ args \in CheckArgLists
    /\ host = [kind |-> "noimport", network |-> Undefined]
    /\ env \in CheckEnvironments
    /\ opts = PayLocals
    /\ pc = "start"
    /\ InitLocals

a_output == << "o",".","j","s","o","n" >>
a_outputAbs == << "/","o",".","j","s","o","n" >>
a_input == << "{","\"","t","\"",":"," ","1","}" >>
a_badInput == << "{" >>

\* the argument lists of payment create: each flag absent or given a value
CreateArgLists ==
    { u \o k \o a \o v \o n \o d \o p \o f :
        u \in { << >>, << flag(k_payment_service_url), << "a","u" >> >> },
        k \in { << >>, << flag(k_api_key), << "a","k" >> >> },
        a \in { << >>, << flag(k_agent_identifier), << "a","g" >> >> },
        v \in { << >>, << flag(k_seller_vkey), << "a","v" >> >> },
        n \in { << >>, << flag(k_network), << "M","a","i","n","n","e","t" >> >> },
        d \in { << >>, << flag(k_input_data), a_input >>,
                 << flag(k_input_data), a_badInput >> },
        p \in { << >>, << flag(k_identifier), << "p","1" >> >> },
        f \in { << >>, << flag(k_output_file), a_output >>,
                 << flag(k_output_file), a_outputAbs >> } }

\* the environments of payment create and purchase create: nothing set,
\* everything set, the service's address and key only
CreateEnvironments ==
    { MkPayEnv(Undefined, Undefined, Undefined, Undefined, Undefined),
      MkPayEnv(<< "e","u" >>, << "e","k" >>, << "e","a" >>, << "P","r","e","v","i","e","w" >>, << "e","v" >>),
      MkPayEnv(<< "e","u" >>, << "e","k" >>, Undefined, Undefined, Undefined) }

InitPaymentCreate ==
    /\ tool = "paymentCreate"
    /\ args \in CreateArgLists
    /\ host = [kind |-> "noimport", network |-> Undefined]
    /\ env \in CreateEnvironments
    /\ opts = PayLocals
    /\ pc = "start"
    /\ InitLocals

\* the payment parameters of purchase create in flag mode
purchaseParameters ==
    << << flag(k_blockchain_identifier), a_b1 >>,
       << flag(k_pay_by_time), a_t1 >>,
       << flag(k_submit_result_time), a_t1 >>,
       << flag(k_unlock_time), a_t1 >>,
       << flag(k_external_dispute_unlock_time), a_t1 >>,
       << flag(k_input_hash), << "#","h" >> >>,
       << flag(k_identifier), << "p","1" >> >> >>

RECURSIVE concatAll(_)
concatAll(ss) == IF ss = << >> THEN << >> ELSE Head(ss) \o concatAll(Tail(ss))

\* the argument lists of purchase create: a file or not, the configuration
\* flags or not, and all payment parameters, all but one, or none
PurchaseArgLists ==
    { f \o c \o p :
        f \in { << >>, << flag(k_file), a_file >> },
        c \in { << >>, << flag(k_payment_service_url), << "a","u" >>, flag(k_api_key), << "a","k" >>,
                           flag(k_agent_identifier), << "a","g" >>, flag(k_seller_vkey), << "a","v" >> >> },
        p \in { << >>, concatAll(purchaseParameters) }
               \cup { concatAll(SelectSeq(purchaseParameters, LAMBDA q : q # purchaseParameters[k])) :
                        k \in 1..Len(purchaseParameters) } }

InitPurchaseCreate ==
    /\ tool = "purchaseCreate"
    /\ args \in PurchaseArgLists
    /\ host = [kind |-> "noimport", network |-> Undefined]
    /\ env \in CreateEnvironments
    /\ opts = PayLocals
    /\ pc = "start"
    /\ InitLocals

Init ==
    \/ InitBalance \/ InitSend \/ InitWallet
    \/ InitPaymentCheck \/ InitPaymentCreate \/ InitPurchaseCreate

Next ==
    \/ GetNetworkAndApiKey
    \/ BalanceParse
    \/ BalanceValidate
    \/ BalanceSelectNetwork
    \/ GetWalletBalance
    \/ BalanceFinish
    \/ SendParse
    \/ SendValidate
    \/ SendCreateWallet
    \/ SendCheckFunds
    \/ SendSubmit
    \/ SendCatch
    \/ SendFinish
    \/ WalletParse
    \/ WalletValidate
    \/ CreateWalletMnemonic
    \/ CreateWalletAddr
    \/ CreateWalletVkey
    \/ CreateWalletCatch
    \/ WalletFinish
    \/ PayParse
    \/ CheckSource
    \/ CheckRequired
    \/ CheckPaymentStatus
    \/ CheckReport
    \/ CreateValidate
    \/ CreatePayment
    \/ CreateDetails
    \/ PurchaseSource
    \/ PurchaseRequired
    \/ CreatePurchase

Spec == Init /\ [][Next]_vars

\* getNetworkAndApiKey under every host state and environment
InitConfig ==
    /\ tool = "config"
    /\ args = << >>
    /\ host \in HostStates
    /\ env \in Environments
    /\ opts = << >>
    /\ InitLocals
    /\ pc = "getNetworkAndApiKey"

NextConfig == GetNetworkAndApiKey \/ ConfigReturn

SpecConfig == InitConfig /\ [][NextConfig]_vars

\* parseArgs on every argument list
InitParse ==
    /\ tool = "parseArgs"
    /\ args \in ArgLists(ParseTokens, MaxArgs)
    /\ host = [kind |-> "noimport", network |-> Undefined]
    /\ env = MkEnv(Undefined, Undefined, Undefined, Undefined)
    /\ opts = << >>
    /\ pc = "start"
    /\ InitLocals

NextParse == ParseArgsStep \/ ParseArgsReturn

SpecParse == InitParse /\ [][NextParse]_vars

\* a payment-create run that asks for an output file, then a run of payment
\* check or purchase create on the file it wrote
RoundTripArgLists ==
    { a \in CreateArgLists : Truthy(arg(parseArgsFrom(a, 0, << >>), k_output_file)) }

InitRoundTrip ==
    /\ tool = "paymentCreate"
    /\ args \in RoundTripArgLists
    /\ host = [kind |-> "noimport", network |-> Undefined]
    /\ env \in CreateEnvironments
    /\ opts = PayLocals
    /\ pc = "start"
    /\ InitLocals

\* the next process: started with --file and the name payment create was given
\* or the path it printed, in the same working directory, with an environment
\* of its own; the files on disk are all it shares with the run before
NextRun ==
    /\ tool = "paymentCreate" /\ pc = "exited" /\ exitCode = 0
    /\ files # << >>
    /\ \E t \in { "paymentCheck", "purchaseCreate" },
          f \in { arg(parsed, k_output_file), outputPath(arg(parsed, k_output_file)) },
          e \in CreateEnvironments :
         /\ tool' = t
         /\ args' = << flag(k_file), f >>
         /\ env' = e
    /\ pc' = "start"
    /\ exitCode' = -1
    /\ out' = << >>
    /\ calls' = << >>
    /\ envReads' = {}
    /\ opts' = PayLocals
    /\ parsed' = << >>
    /\ result' = Undefined
    /\ UNCHANGED << host, network, apiKey, finalNetwork, i, files >>

NextRoundTrip ==
    \/ PayParse
    \/ CreateValidate
    \/ CreatePayment
    \/ CreateDetails
    \/ NextRun
    \/ CheckSource
    \/ CheckRequired
    \/ CheckPaymentStatus
    \/ CheckReport
    \/ PurchaseSource
    \/ PurchaseRequired
    \/ CreatePurchase

SpecRoundTrip == InitRoundTrip /\ [][NextRoundTrip]_vars

\* checkPaymentStatus from the parsed body on, under every shape of the body
PaymentLists ==
    { NoArr, NotArr, Arr(<< >>),
      Arr(<< Payment(a_b1, s_FundsLocked) >>),
      Arr(<< Payment(a_b2, s_Withdrawn) >>),
      Arr(<< Payment(a_b2, s_Withdrawn), Payment(a_b1, s_Disputed),
             Payment(a_b1, s_FundsLocked) >>) }

FindResponses ==
    { NullResponse }
    \cup { Response(d, b, s_ResultSubmitted) :
             d \in { NoData } \cup { ListData(lower, upper) :
                                       lower \in PaymentLists, upper \in PaymentLists },
             b \in { Undefined, a_b1, a_b2 } }

InitFind ==
    /\ tool = "checkPaymentStatus"
    /\ args = << >>
    /\ host = [kind |-> "noimport", network |-> Undefined]
    /\ env = MkEnv(Undefined, Undefined, Undefined, Undefined)
    /\ \E r \in FindResponses, id \in { a_b1, a_b2 } :
         opts = [response |-> r, paymentIdentifier |-> id]
    /\ pc = "parsed"
    /\ InitLocals

\* from `let payment = null` to `return payment`; reading null.data throws
FindPaymentReturn ==
    /\ tool = "checkPaymentStatus" /\ pc = "parsed"
    /\ IF opts.response.kind = "null"
       THEN /\ pc' = "thrown"
            /\ out' = Append(out, Msg("stderr", "Error checking payment status", << >>))
            /\ UNCHANGED result
       ELSE /\ result' = findPayment(opts.response, opts.paymentIdentifier)
            /\ pc' = "returned"
            /\ UNCHANGED out
    /\ UNCHANGED << inputs, exitCode, calls, envReads, opts, network, apiKey,
                    finalNetwork, i, parsed, files >>

NextFind == FindPaymentReturn

SpecFind == InitFind /\ [][NextFind]_vars

-----------------------------------------------------------------------------
(* Properties *)

\* the host preference, when the host store answers
HostPreference == IF host.kind = "prefs" THEN host.network ELSE Undefined

\* what NETWORK selects: the network it spells in any case, if any
EnvNetwork ==
    IF env.NETWORK = s_mainnet \/ env.NETWORK = s_Mainnet THEN s_mainnet
    ELSE IF env.NETWORK = s_PREVIEW THEN s_preview
    ELSE Undefined

\* the value of the credential variable of network n, read off the environment
KeyOf(n) ==
    IF n = s_mainnet THEN env.MAINNET
    ELSE IF n = s_preprod THEN env.PREPROD
    ELSE env.PREVIEW

\* the name of the credential variable of network n
VarNameOf(n) ==
    IF n = s_mainnet THEN v_MAINNET
    ELSE IF n = s_preprod THEN v_PREPROD
    ELSE v_PREVIEW

\* C1: getNetwork returns the host preference when it is non-empty, otherwise
\* the network NETWORK spells (in any case), otherwise preprod; NETWORK is
\* read only when the host preference yields nothing.
C1_NetworkPrecedence ==
    pc # "getNetworkAndApiKey" =>
        /\ network = ( IF HostPreference # Undefined /\ HostPreference # << >>
                       THEN HostPreference
                       ELSE IF EnvNetwork # Undefined THEN EnvNetwork
                       ELSE s_preprod )
        /\ (s_NETWORK \in envReads) <=> (HostPreference \in { Undefined, << >> })

C1_Witness ==
    /\ pc = "returned"
    /\ HostPreference = s_mainnet
    /\ env.NETWORK = s_PREVIEW
    /\ network = s_mainnet

C3_CredentialOfNetwork ==
    (pc # "getNetworkAndApiKey" /\ Truthy(KeyOf(network))) =>
        /\ exitCode = -1
        /\ apiKey = KeyOf(network)
        /\ pc = "returned" => result = [network |-> network, apiKey |-> KeyOf(network)]

C3_Witness ==
    /\ pc = "returned"
    /\ network = s_preview
    /\ result.apiKey = << "k", "V" >>
    /\ Truthy(env.PREPROD)
    /\ Truthy(env.MAINNET)

\* C4: when the credential variable of the resolved network is absent or
\* empty, the tool has exited with status 1 and a message naming that
\* variable, has read no other credential variable and has made no call.
C4_MissingCredentialIsFatal ==
    (tool \in { "balance", "send" } /\ network # Undefined /\ ~Truthy(KeyOf(network))) =>
        /\ pc = "exited"
        /\ exitCode = 1
        /\ \E k \in 1..Len(out) :
             /\ out[k].text = "not found in environment"
             /\ out[k].arg = VarNameOf(network)
        /\ envReads \subseteq { s_NETWORK, VarNameOf(network) }
        /\ calls = << >>
        /\ apiKey = Undefined

C4_Witness ==
    /\ tool = "send"
    /\ network = s_mainnet
    /\ env.MAINNET = Undefined
    /\ Truthy(env.PREPROD)
    /\ Truthy(env.PREVIEW)
    /\ exitCode = 1

\* C5: in the balance check and the ADA transfer, when the --network flag is
\* given one of mainnet, preprod, preview, the tool goes on with the flag's
\* value, and every call that takes a network gets it.
C5_FlagOverridesResolver ==
    (tool \in { "balance", "send" } /\ apiKey # Undefined /\ pc # "gotNetworkAndApiKey"
        /\ opts.networkOverride \in Network) =>
        /\ finalNetwork = opts.networkOverride
        /\ \A k \in 1..Len(calls) :
             calls[k].network # Undefined => calls[k].network = opts.networkOverride

C5_Witness ==
    /\ tool = "balance"
    /\ args = << f_address, a_addr1, f_network, s_preview >>
    /\ network = s_mainnet
    /\ Len(calls) = 1
    /\ calls[1].network = s_preview

\* whether the tool's external work succeeded
Succeeded ==
    IF tool = "balance" THEN "Wallet Balance" \in Texts(out)
    ELSE IF tool = "wallet" THEN "Key Hash saved" \in Texts(out)
    ELSE result # Undefined /\ result # Null

\* C6: a tool ends with exit status 0 only when its external call succeeded
\* and with exit status 1 otherwise; a failed transfer (sendAda returning
\* null) and a failed wallet generation (createWallet returning null) end
\* with a non-zero status.
C6_ExitStatusReflectsOutcome ==
    (tool \in { "balance", "send", "wallet" } /\ pc = "exited") =>
        exitCode = (IF Succeeded THEN 0 ELSE 1)

\* whether main parsed a --network value outside the tool's allowed names
InvalidNetworkFlag ==
    /\ tool \in { "balance", "send", "wallet" }
    /\ pc # "start"
    /\ IF tool = "wallet"
       THEN ~includes(walletNetworks, opts.network)
       ELSE opts.networkOverride # << >> /\ opts.networkOverride \notin Network

\* C7: in the balance check, the wallet creator and the ADA transfer, a
\* --network value outside the allowed names is a usage error: the process
\* exits with status 1 and no call is made.
C7_InvalidNetworkIsUsageError ==
    InvalidNetworkFlag =>
        /\ calls = << >>
        /\ pc = "exited" => exitCode = 1

RECURSIVE Scanned(_, _)
\* whether the scan of argument list a visits 1-based position k
Scanned(a, k) ==
    \/ k = 1
    \/ k > 1 /\ Scanned(a, k - 1)
             /\ ~(startsWith(a[k - 1], dashdash) /\ k - 1 < Len(a))
    \/ k > 2 /\ Scanned(a, k - 2) /\ startsWith(a[k - 2], dashdash)

\* the positions of a where a flag with a following token is scanned
FlagPositions(a) ==
    { k \in 1..(Len(a) - 1) : Scanned(a, k) /\ startsWith(a[k], dashdash) }

\* the mapping the scan of a records
Recorded(a) ==
    LET keys == { SubSeq(a[k], 3, Len(a[k])) : k \in FlagPositions(a) }
        last(key) == CHOOSE k \in FlagPositions(a) :
                        /\ SubSeq(a[k], 3, Len(a[k])) = key
                        /\ \A j \in FlagPositions(a) :
                             SubSeq(a[j], 3, Len(a[j])) = key => j <= k
    IN  [ key \in keys |-> a[last(key) + 1] ]

k_amount == << "a","m","o","u","n","t" >>
k_recipient == << "r","e","c","i","p","i","e","n","t" >>

\* C8: parseArgs scans left to right; a token starting with -- that has a
\* following token records its name without the dashes against that token
\* and the scan resumes after both; a trailing flag records nothing; flags of
\* any name are kept. [--amount, 5.0, --recipient, addr1] gives
\* {amount: 5.0, recipient: addr1}; [--amount] gives no amount key.
C8_ParseArgs ==
    pc = "returned" =>
        /\ result = Recorded(args)
        /\ args = << f_amount, a_amount, f_recipient, a_addr1 >> =>
             /\ DOMAIN result = { k_amount, k_recipient }
             /\ result[k_amount] = a_amount
             /\ result[k_recipient] = a_addr1
        /\ args = << f_amount >> => k_amount \notin DOMAIN result

C8_Witness ==
    /\ pc = "returned"
    /\ args = << f_amount, a_amount, f_recipient, a_addr1 >>
    /\ DOMAIN result = { k_amount, k_recipient }

\* the tokens of the argument list that do not start with --
NonFlagPositions == { k \in 1..Len(args) : ~startsWith(args[k], dashdash) }

\* C9: in the balance check, when no --address flag is given, the address
\* used is the first token that does not start with --. (Stated for the
\* argument lists without --network, whose value the loop consumes.)
C9_FirstPositionalIsAddress ==
    ( /\ tool = "balance" /\ pc # "start"
      /\ \A k \in 1..Len(args) : args[k] # f_address /\ args[k] # f_network
      /\ NonFlagPositions # {} ) =>
        opts.address = args[CHOOSE k \in NonFlagPositions :
                                \A j \in NonFlagPositions : k <= j]

\* the signing flags the argument list of the ADA transfer gives
Supplied ==
    { m \in { "mnemonic", "skeyFile", "skey" } :
        \E k \in 1..Len(args) :
            args[k] = ( IF m = "mnemonic" THEN f_mnemonic
                        ELSE IF m = "skeyFile" THEN f_skey_file ELSE f_skey ) }

HighestPriority ==
    IF "mnemonic" \in Supplied THEN "mnemonic"
    ELSE IF "skeyFile" \in Supplied THEN "skeyFile"
    ELSE "skey"

\* whether main got past the checks of the recipient and the amount
SigningChecked ==
    /\ tool = "send" /\ pc \notin { "start", "validate" }
    /\ \E k \in 1..Len(args) : args[k] = f_recipient
    /\ \E k \in 1..(Len(args) - 1) : args[k] = f_amount /\ args[k + 1] = a_amount

\* C10: in the ADA transfer the wallet is built from the highest-priority
\* signing method supplied (mnemonic, then skey-file, then skey); the
\* precedence warning is written exactly when more than one is supplied;
\* with none supplied the tool exits 1 without building a wallet.
C10_SigningPrecedence ==
    tool = "send" =>
        /\ \A k \in 1..Len(calls) :
             calls[k].api = "MeshWallet" =>
                 /\ Supplied # {}
                 /\ calls[k].arg = HighestPriority
        /\ SigningChecked =>
             ( ("Multiple signing methods provided" \in Texts(out))
                 <=> Cardinality(Supplied) > 1 )
        /\ (Supplied = {} /\ pc \notin { "start", "validate" }) =>
             /\ pc = "exited" /\ exitCode = 1
             /\ calls = << >>

C10_Witness ==
    /\ tool = "send"
    /\ Supplied = { "mnemonic", "skeyFile" }
    /\ "Multiple signing methods provided" \in Texts(out)
    /\ \E k \in 1..Len(calls) : calls[k].api = "MeshWallet" /\ calls[k].arg = "mnemonic"

-----------------------------------------------------------------------------
(* Properties of the payment tools *)

\* the class a report line stands for
ClassOf(text) ==
    IF text \in { "SUCCESS: Funds are locked", "SUCCESS: Payment already processed" }
    THEN "success"
    ELSE IF text = "FAILED: Payment failed with state" THEN "failed"
    ELSE IF text = "PENDING: Still processing" THEN "pending"
    ELSE "none"

\* the positions of the report lines that classify the payment
Classifications == { k \in 1..Len(out) : ClassOf(out[k].text) # "none" }

\* the class of an on-chain state, by the table of states
ExpectedClass(s) ==
    IF s \in { s_FundsLocked, s_ResultSubmitted, s_Withdrawn } THEN "success"
    ELSE IF s \in { s_FundsOrDatumInvalid, s_RefundRequested, s_Disputed,
                    s_RefundWithdrawn, s_DisputedWithdrawn } THEN "failed"
    ELSE "pending"

\* C11: when payment check has found the payment, its report classifies the
\* on-chain state exactly once: FundsLocked, ResultSubmitted and Withdrawn as
\* success, the five refund/dispute/invalid states as failed, and null, no
\* state, the empty string and every other name as pending; the process then
\* ends with status 0.
C11_StatusClassification ==
    (tool = "paymentCheck" /\ pc = "exited" /\ "Payment found" \in Texts(out)) =>
        /\ exitCode = 0
        /\ Cardinality(Classifications) = 1
        /\ \A k \in Classifications :
             /\ out[k].arg = result.onChainState
             /\ ClassOf(out[k].text) = ExpectedClass(result.onChainState)

C11_Witness ==
    /\ tool = "paymentCheck"
    /\ pc = "exited"
    /\ exitCode = 0
    /\ result.found
    /\ result.onChainState = s_Pending
    /\ "PENDING: Still processing" \in Texts(out)

\* the lines of the report with the given text, in order
ReportLines(text) == SelectSeq(out, LAMBDA m : m.text = text)

\* the entries of the amount list that are not lovelace, in order
NonLovelace(amounts) == SelectSeq(amounts, LAMBDA a : a.unit # s_lovelace)

\* the count of lovelace the amount list gives, 0 when it has no such entry
LovelaceOf(amounts) ==
    IF \E k \in 1..Len(amounts) : amounts[k].unit = s_lovelace
    THEN LET q == amounts[CHOOSE k \in 1..Len(amounts) :
                              amounts[k].unit = s_lovelace].quantity
         IN  digitsValue(q, Len(q), Len(q))
    ELSE 0

\* C12: for every amount list the address lookup returns, the balance report
\* has one ADA line whose number is the lovelace quantity divided by
\* 1,000,000 (0 without a lovelace entry) and one line "<quantity> <unit>"
\* per other entry, in the order of the list; [{lovelace, 5000000},
\* {assetX, 3}] gives ADA 5 and the one line "3 assetX".
C12_BalanceReport ==
    (tool = "balance" /\ "Wallet Balance" \in Texts(out)) =>
        /\ Len(ReportLines("ADA")) = 1
        /\ parseFloat(ReportLines("ADA")[1].arg) = Num(LovelaceOf(result))
        /\ Len(ReportLines("asset line")) = Len(NonLovelace(result))
        /\ \A k \in 1..Len(NonLovelace(result)) :
             ReportLines("asset line")[k].arg =
                 NonLovelace(result)[k].quantity \o << " " >> \o NonLovelace(result)[k].unit
        /\ result = << Amount(s_lovelace, << "5","0","0","0","0","0","0" >>), Amount(a_assetX, << "3" >>) >> =>
             /\ ReportLines("ADA")[1].arg = << "5" >>
             /\ ReportLines("asset line")[1].arg = << "3"," ","a","s","s","e","t","X" >>

C12_Witness ==
    /\ tool = "balance"
    /\ pc = "exited"
    /\ exitCode = 0
    /\ result = << Amount(s_lovelace, << "5","0","0","0","0","0","0" >>), Amount(a_assetX, << "3" >>) >>
    /\ ReportLines("ADA")[1].arg = << "5" >>
    /\ Len(ReportLines("asset line")) = 1

\* the positions of main at which it parses and validates
Validating == { "start", "validate", "source", "required" }

\* whether the run lacks an input its tool requires, once main has parsed
\* the arguments and built its configuration
RequiredInputMissing ==
    \/ /\ tool = "balance" /\ pc # "start"
       /\ opts.address = << >>
    \/ /\ tool = "send" /\ pc # "start"
       /\ \/ opts.recipientAddress = << >>
          \/ opts.amountAda.nan
          \/ opts.amountAda.micro <= 0
          \/ (opts.mnemonic = << >> /\ opts.skeyFile = << >> /\ opts.skey = << >>)
    \/ /\ tool \in { "paymentCreate", "purchaseCreate" }
       /\ pc \notin { "start", "source" }
       /\ \/ opts.config.paymentServiceUrl \in { Undefined, << >> }
          \/ opts.config.apiKey \in { Undefined, << >> }
          \/ opts.config.agentIdentifier \in { Undefined, << >> }
          \/ opts.config.sellerVkey \in { Undefined, << >> }
    \/ /\ tool = "paymentCheck"
       /\ pc \notin { "start", "source" }
       /\ \/ opts.config.paymentServiceUrl \in { Undefined, << >> }
          \/ opts.config.apiKey \in { Undefined, << >> }
    \/ /\ tool = "paymentCreate"
       /\ pc \notin { "start", "source" }
       /\ \E k \in 1..(Len(args) - 1) :
            args[k] = flag(k_input_data) /\ args[k + 1] = a_badInput

\* C13: in every tool no external call is made while main parses and
\* validates, and a run that lacks a required input (the address of the
\* balance check; the recipient, a positive amount or a signing method of the
\* ADA transfer; a required configuration field of a payment tool; valid
\* JSON in --input-data) has exited with status 1 without any call.
C13_ValidationBeforeCalls ==
    /\ pc \in Validating => calls = << >>
    /\ (RequiredInputMissing /\ pc \notin Validating) =>
           (pc = "exited" /\ exitCode = 1 /\ calls = << >>)

C13_Witness ==
    /\ tool = "paymentCreate"
    /\ RequiredInputMissing
    /\ "Invalid JSON in --input-data" \in Texts(out)
    /\ exitCode = 1
    /\ calls = << >>

\* whether the run has no blockchain identifier, once main has taken its data
\* from the file or the flags
NoBlockchainIdentifier ==
    /\ pc \notin { "start", "source" }
    /\ \/ /\ tool = "paymentCheck"
          /\ opts.paymentIdentifier \in { Undefined, Null, << >> }
       \/ /\ tool = "purchaseCreate"
          /\ \/ ~opts.paymentResponse.data.defined
             \/ opts.paymentResponse.data.blockchainIdentifier \in { Undefined, Null, << >> }

\* C14: payment check and purchase create, in file mode and in flag mode,
\* send no request to the payment service and exit with status 1 when no
\* blockchain identifier is available.
C14_BlockchainIdentifierRequired ==
    NoBlockchainIdentifier =>
        /\ calls = << >>
        /\ pc = "exited" => exitCode = 1

-----------------------------------------------------------------------------
(* Properties of the round trip of the payment-output bundle *)

\* the run reads a bundle that a payment-create run wrote
SecondRun == tool \in { "paymentCheck", "purchaseCreate" } /\ files # << >>

\* the bundle at the path the run was given
Bundle == contentAt(files, fsPath(args[2]))

\* the stored service response contains data.blockchainIdentifier
BundleHasIdentifier ==
    /\ Bundle.response.kind = "object"
    /\ Bundle.response.data.defined
    /\ isString(Bundle.response.data.blockchainIdentifier)
    /\ Truthy(Bundle.response.data.blockchainIdentifier)

\* the messages of a file-format or missing-parameter error, and of a crash
RejectionTexts ==
    { "Error loading file", "No blockchainIdentifier found in file",
      "Invalid file format", "Missing required parameter",
      "Missing required payment parameters", "TypeError" }

\* the request carries the stored address, key, network and blockchain identifier
UsesStoredService(c) ==
    /\ c.url = Bundle.config.paymentServiceUrl
    /\ c.projectId = Bundle.config.apiKey
    /\ c.network = Bundle.config.network
    /\ c.arg.blockchainIdentifier = Bundle.response.data.blockchainIdentifier

\* the request carries the stored agent, seller key and purchaser identifier
UsesStoredParties(c) ==
    /\ c.arg.agentIdentifier = Bundle.config.agentIdentifier
    /\ c.arg.sellerVkey = Bundle.config.sellerVkey
    /\ c.arg.identifierFromPurchaser = Bundle.paymentData.identifierFromPurchaser

\* C15, as amended: a bundle written by a successful payment-create run
\* whose response contains data.blockchainIdentifier is accepted by payment
\* check and purchase create via --file: neither reports a file-format or
\* missing-parameter error, and neither ends before its request is sent.
\* Both send the request to the stored service address with the stored key,
\* network and blockchain identifier, whatever the environment holds;
\* purchase create also sends the stored agent identifier, seller key and
\* purchaser identifier. Payment check sends no purchaser identifier.
C15_BundleRoundTrip ==
    (SecondRun /\ BundleHasIdentifier) =>
        /\ Texts(out) \cap RejectionTexts = {}
        /\ pc = "exited" => calls # << >>
        /\ \A k \in 1..Len(calls) :
             /\ UsesStoredService(calls[k])
             /\ tool = "purchaseCreate" => UsesStoredParties(calls[k])
             /\ tool = "paymentCheck" => calls[k].arg.identifierFromPurchaser = Undefined

\* purchase create has sent its request from a bundle while every variable
\* of the environment holds another value than the bundle
C15_Witness ==
    /\ SecondRun /\ BundleHasIdentifier
    /\ tool = "purchaseCreate"
    /\ pc = "exited" /\ exitCode = 0
    /\ calls # << >>
    /\ Truthy(env.MASUMI_API_KEY) /\ env.MASUMI_API_KEY # Bundle.config.apiKey
    /\ Truthy(env.MASUMI_SELLER_VKEY) /\ env.MASUMI_SELLER_VKEY # Bundle.config.sellerVkey

\* C15, as stated: both tools use the configuration, the blockchain
\* identifier and the purchaser identifier exactly as stored in the bundle
C15_AsStated ==
    (SecondRun /\ BundleHasIdentifier) =>
        /\ Texts(out) \cap RejectionTexts = {}
        /\ pc = "exited" => calls # << >>
        /\ \A k \in 1..Len(calls) :
             /\ UsesStoredService(calls[k])
             /\ calls[k].arg.identifierFromPurchaser =
                    Bundle.paymentData.identifierFromPurchaser

-----------------------------------------------------------------------------
(* Properties of what the tools leave behind *)

\* the messages of a failed POST and of the usage errors of payment create
CreateFailureTexts ==
    { "Error creating payment", "Missing required parameter",
      "Invalid JSON in --input-data" }

\* C16: payment create writes the output file only after the payment service
\* has answered its one request with a success status and the response was
\* parsed; in every run where the POST failed or a usage error occurred, no
\* output file is written and the process exits 1.
C16_OutputOnlyAfterSuccess ==
    tool = "paymentCreate" =>
        /\ files # << >> =>
             /\ Len(files) = 1
             /\ Len(calls) = 1
             /\ "Payment created successfully" \in Texts(out)
             /\ Texts(out) \cap CreateFailureTexts = {}
             /\ files[1].content.response = result
        /\ Texts(out) \cap CreateFailureTexts # {} =>
             /\ files = << >>
             /\ pc = "exited" /\ exitCode = 1

\* the POST failed in a run that was given --output-file
C16_Witness ==
    /\ tool = "paymentCreate"
    /\ Truthy(arg(parsed, k_output_file))
    /\ "Error creating payment" \in Texts(out)
    /\ Len(calls) = 1
    /\ pc = "exited"
    /\ files = << >>

\* the extensions of the artifact files, in the order createWallet writes them
artifactOrder == << "mnemonic", "addr", "vkey" >>

\* the files are the first ones of the three artifacts, under one base name
ArtifactPrefix ==
    /\ Len(files) <= Len(artifactOrder)
    /\ \A k \in 1..Len(files) :
         /\ files[k].ext = artifactOrder[k]
         /\ files[k].base = files[1].base
         /\ \E now \in Timestamps : files[k].base = baseFilename(now, opts.name)

\* a step of createWallet has failed
WalletStepFailed == pc = "catch" \/ "error during wallet generation" \in Texts(out)

\* C17: in one wallet-creation run the three artifact files share one
\* timestamped base name and are each written at most once, in the order
\* .mnemonic, .addr, .vkey; a step never changes or removes a file written
\* before, and once a step has failed no further file is written.
C17_ArtifactsInOrderNoRollback ==
    /\ [](tool = "wallet" => ArtifactPrefix)
    /\ [][tool = "wallet" =>
            /\ \/ files' = files
               \/ Len(files') = Len(files) + 1 /\ SubSeq(files', 1, Len(files)) = files
            /\ WalletStepFailed => (files' = files /\ Len(files) < Len(artifactOrder))]_vars

\* a run whose address step failed after the mnemonic file was written has
\* ended with that file alone
C17_Witness ==
    /\ tool = "wallet" /\ pc = "exited"
    /\ WalletStepFailed
    /\ Len(files) = 1 /\ files[1].ext = "mnemonic"

-----------------------------------------------------------------------------
(* Properties of the calls *)

\* how many of the calls made so far went to one of these interfaces
CallsTo(apis) == Len(SelectSeq(calls, LAMBDA c : c.api \in apis))

\* C18: no tool retries. In any single run payment create, payment check and
\* purchase create each send at most one HTTP request to the payment
\* service, the balance check performs at most one address lookup and the
\* ADA transfer submits at most one transaction, also when that call fails.
C18_NoRetries ==
    /\ tool \in PayTools =>
           CallsTo({ "GET /payment/", "POST /payment/", "POST /purchase/" }) <= 1
    /\ tool = "balance" => CallsTo({ "blockfrost.addresses" }) <= 1
    /\ tool = "send" => CallsTo({ "wallet.submitTx" }) <= 1

\* payment check has ended after its request failed
C18_Witness ==
    /\ tool = "paymentCheck" /\ pc = "exited" /\ exitCode = 1
    /\ "Error checking payment status" \in Texts(out)
    /\ CallsTo({ "GET /payment/" }) = 1

-----------------------------------------------------------------------------
(* Properties of the resolver and of the credential in use *)

\* what getNetwork returns when the host has no preference
WithoutPreference == IF EnvNetwork # Undefined THEN EnvNetwork ELSE s_preprod

\* C19: getNetwork never fails. For every NETWORK value, unrecognized ones
\* included, and whether the host preference store is unavailable, throws on
\* access or returns an empty preference, getNetwork returns a network; a
\* process exit after it is the missing credential's and names the
\* credential of the network returned. An unavailable or failing host store
\* gives what an absent preference gives.
C19_GetNetworkNeverFails ==
    pc # "getNetworkAndApiKey" =>
        /\ network \in Network
        /\ (host.kind \in { "noimport", "throws" } \/ ~Truthy(host.network)) =>
               network = WithoutPreference
        /\ pc = "exited" =>
               /\ ~Truthy(KeyOf(network))
               /\ \A k \in 1..Len(out) : out[k].arg = VarNameOf(network)

\* the host store threw, NETWORK is no network, and getNetwork returned
C19_Witness ==
    /\ host.kind = "throws"
    /\ env.NETWORK = s_bogus
    /\ pc = "returned"
    /\ network = s_preprod

\* the --network flag holds one of the three networks
ValidOverride == tool \in { "balance", "send" } /\ pc # "start" /\ opts.networkOverride \in Network

\* C20: in the balance check and the ADA transfer the credential handed to
\* the blockchain-data client is the one of the network used for the call:
\* with a valid --network flag every call carries the value of
\* BLOCKFROST_API_KEY_<flag's network>, and when that variable is set the
\* run does not end on a missing credential.
C20_CredentialOfNetworkInUse ==
    ValidOverride =>
        /\ \A k \in 1..Len(calls) :
             calls[k].projectId # Undefined =>
                 calls[k].projectId = KeyOf(opts.networkOverride)
        /\ Truthy(KeyOf(opts.networkOverride)) =>
               "not found in environment" \notin Texts(out)

-----------------------------------------------------------------------------
(* Properties of the transfer's funds check *)

\* the interfaces that build, sign and submit the transaction
TransactionApis == { "tx.build", "wallet.signTx", "wallet.submitTx" }

\* the positions of the calls to an interface
PositionsOf(api) == { k \in 1..Len(calls) : calls[k].api = api }

\* the balances the tool reported
ReportedBalances ==
    { out[k].arg : k \in { j \in 1..Len(out) : out[j].text = "Current balance" } }

\* sendAda has been through its funds check and found no UTXO or too little
FundsCheckFailed ==
    /\ tool = "send" /\ pc \in { "catch", "returned", "exited" }
    /\ PositionsOf("wallet.getUtxos") # {}
    /\ \/ PositionsOf("wallet.getBalance") = {}
       \/ \E b \in ReportedBalances : b.micro < opts.amountAda.micro

\* C21: in the ADA transfer a transaction is built, signed and submitted
\* only after the UTXO list was found non-empty and the reported balance was
\* found to be at least the requested amount; when the wallet has no UTXOs
\* or the balance is lower than the amount, sendAda returns null and no
\* transaction is built or submitted.
C21_FundsCheckedBeforeTransaction ==
    tool = "send" =>
        /\ \A k \in 1..Len(calls) :
             calls[k].api \in TransactionApis =>
                 /\ \E u \in PositionsOf("wallet.getUtxos"),
                       b \in PositionsOf("wallet.getBalance") : u < b /\ b < k
                 /\ ReportedBalances # {}
                 /\ \A b \in ReportedBalances : b.micro >= opts.amountAda.micro
        /\ FundsCheckFailed =>
             /\ CallsTo(TransactionApis) = 0
             /\ pc \in { "returned", "exited" } => result = Null

\* a transfer of more than the wallet holds has returned
C21_Witness ==
    /\ FundsCheckFailed
    /\ pc = "exited"
    /\ \E b \in ReportedBalances : b.micro > 0 /\ b.micro < opts.amountAda.micro
    /\ result = Null

-----------------------------------------------------------------------------
(* Properties of the search for the payment *)

\* the first shape the body has, and the payments it offers, in order
FirstShape(r) ==
    IF r.data.defined /\ r.data.payments.t = "array" THEN r.data.payments.v
    ELSE IF r.data.defined /\ r.data.Payments.t = "array" THEN r.data.Payments.v
    ELSE << Payment(r.blockchainIdentifier, r.onChainState) >>

\* the positions of the payments with the identifier
Matches(items, id) == { k \in 1..Len(items) : items[k].blockchainIdentifier = id }

\* C22: checkPaymentStatus returns either nothing or a payment whose
\* blockchainIdentifier equals the requested identifier, for every response
\* shape; the shapes are tried in the order data.payments array, else
\* data.Payments array, else the response itself, and only the first shape
\* that is present is searched: the payment returned is the first match of
\* that shape, and nothing is returned when that shape has no match.
C22_FirstShapeOnly ==
    (tool = "checkPaymentStatus" /\ pc = "returned") =>
        LET items == FirstShape(opts.response)
            hits == Matches(items, opts.paymentIdentifier)
        IN  /\ result.found => result.blockchainIdentifier = opts.paymentIdentifier
            /\ result.found <=> hits # {}
            /\ result.found =>
                 \E k \in hits : /\ \A j \in hits : k <= j
                                 /\ result.onChainState = items[k].onChainState

\* data.payments is an empty list, data.Payments and the response itself
\* hold the payment, and nothing is returned
C22_Witness ==
    /\ tool = "checkPaymentStatus" /\ pc = "returned"
    /\ opts.response.data.defined
    /\ opts.response.data.payments = Arr(<< >>)
    /\ Matches(opts.response.data.Payments.v, opts.paymentIdentifier) # {}
    /\ opts.response.blockchainIdentifier = opts.paymentIdentifier
    /\ ~result.found

-----------------------------------------------------------------------------
(* Properties of the configuration read from a file *)

\* payment check has read an object from the file it was given
CheckReadFile ==
    /\ tool = "paymentCheck"
    /\ pc \notin { "start", "source" }
    /\ Truthy(arg(parsed, k_file))
    /\ opts.config.defined

\* C23: in payment-check --file mode each configuration field is the
\* file's when the file provides it and otherwise the environment
\* variable's, field by field: a field is missing only when neither the file
\* nor the environment provides it, and the network is never missing.
C23_FileConfigFieldByField ==
    CheckReadFile =>
        /\ Truthy(env.MASUMI_PAYMENT_SERVICE_URL) => Truthy(opts.config.paymentServiceUrl)
        /\ Truthy(env.MASUMI_API_KEY) => Truthy(opts.config.apiKey)
        /\ Truthy(opts.config.network)

-----------------------------------------------------------------------------
(* Properties of the values parseArgs records *)

\* the flag positions of the argument list that record the key
PositionsOfKey(key) ==
    { k \in FlagPositions(args) : SubSeq(args[k], 3, Len(args[k])) = key }

\* the last of them
LastPositionOfKey(key) ==
    CHOOSE k \in PositionsOfKey(key) : \A j \in PositionsOfKey(key) : j <= k

\* C24: in the generic parseArgs the token following a flag is consumed as
\* that flag's value even when it starts with -- itself, and then records
\* nothing as a flag: [--amount, --recipient, addr1] gives
\* {amount: --recipient} and nothing for recipient or addr1. A token not
\* starting with -- that does not follow a flag is dropped. When a flag
\* occurs more than once with a value, the last occurrence's value is the
\* one in the mapping.
C24_ValueAlwaysConsumed ==
    (tool = "parseArgs" /\ pc = "returned") =>
        /\ \A k \in FlagPositions(args) :
             /\ SubSeq(args[k], 3, Len(args[k])) \in DOMAIN result
             /\ startsWith(args[k + 1], dashdash) =>
                    ( SubSeq(args[k + 1], 3, Len(args[k + 1])) \in DOMAIN result =>
                          \E j \in FlagPositions(args) : j # k + 1 /\ args[j] = args[k + 1] )
        /\ \A key \in DOMAIN result :
             /\ PositionsOfKey(key) # {}
             /\ result[key] = args[LastPositionOfKey(key) + 1]
        /\ \A k \in NonFlagPositions :
             (k = 1 \/ (k - 1) \notin FlagPositions(args)) =>
                 \A key \in DOMAIN result :
                     result[key] = args[k] =>
                         \E j \in FlagPositions(args) : args[j + 1] = args[k]
        /\ args = << f_amount, f_recipient, a_addr1 >> =>
             /\ DOMAIN result = { k_amount }
             /\ result[k_amount] = f_recipient
        /\ args = << f_amount, a_amount, f_amount, a_addr1 >> =>
             result[k_amount] = a_addr1

\* the scan of [--amount, --recipient, addr1] has returned
C24_Witness ==
    /\ tool = "parseArgs" /\ pc = "returned"
    /\ args = << f_amount, f_recipient, a_addr1 >>
    /\ k_amount \in DOMAIN result
    /\ result[k_amount] = f_recipient

====
